---- MODULE Spec2Model ----
(***************************************************************************)
(* laju-io: room pairing protocol.                                         *)
(*                                                                         *)
(* The model covers the room store (table "rooms"), the create-room API    *)
(* handler (src/pages/api/create-room.js), the client hook                 *)
(* useRoomManagement and the page LajuApp (src/pages/index.js), and the    *)
(* earlier page HomePage (src/unnamed/part_000, lines 963-1067).           *)
(*                                                                         *)
(* Every awaited call of the client is split at the await: one step sends  *)
(* the request and lets the server execute it atomically, a later step     *)
(* runs the continuation of the client.  Other participants, the change    *)
(* feed and a page reload may act in between.                              *)
(***************************************************************************)
EXTENDS Integers, Sequences, FiniteSets, TLC

\* ------------------------------------------------------------------ bounds

\* Events of the environment in one behaviour: operations the participants
\* start (create, join, cancel), page reloads and store failures, together.
MaxEvents == 3

\* Rooms inserted in one behaviour (the store assigns ids 1..MaxRooms): a
\* room is inserted by an operation.
MaxRooms == MaxEvents

\* Distinct outcomes of the four Math.random() calls of generateRoomCode.
NumDraws == 2


\* Participants (browser tabs), each with its own sessionStorage clientId.
Clients == {"c1", "c2", "c3"}

RoomIds == 1..MaxRooms

\* ------------------------------------------------------- values and strings

\* JavaScript null for a client id (guest_id of a waiting room).
NoClient == "none"

\* JavaScript null for a room (useLocalStorage('laju-room', null)).
NoRoom == [id |-> 0]

\* No request of the page in flight.
NoReq == [op |-> "none"]

\* No toast on screen.
NoToast == [kind |-> "none", msg |-> ""]

\* The digits of Number.prototype.toString(36), in upper case, as the
\* alphabet of the codes.
charsBase36 ==
  << "0", "1", "2", "3", "4", "5", "6", "7", "8", "9",
     "A", "B", "C", "D", "E", "F", "G", "H", "I", "J", "K", "L", "M", "N",
     "O", "P", "Q", "R", "S", "T", "U", "V", "W", "X", "Y", "Z" >>

\* const chars = 'ABCDEFGHIJKLMNPQRSTUVWXYZ123456789'
chars ==
  << "A", "B", "C", "D", "E", "F", "G", "H", "I", "J", "K", "L", "M", "N",
     "P", "Q", "R", "S", "T", "U", "V", "W", "X", "Y", "Z",
     "1", "2", "3", "4", "5", "6", "7", "8", "9" >>

\* for (let i = 0; i < 4; i++)
CodeLen == 4

LowerLetters ==
  << "a", "b", "c", "d", "e", "f", "g", "h", "i", "j", "k", "l", "m", "n",
     "o", "p", "q", "r", "s", "t", "u", "v", "w", "x", "y", "z" >>

UpperLetters ==
  << "A", "B", "C", "D", "E", "F", "G", "H", "I", "J", "K", "L", "M", "N",
     "O", "P", "Q", "R", "S", "T", "U", "V", "W", "X", "Y", "Z" >>

\* String.prototype.toUpperCase on one character.
UpperChar(ch) ==
  IF \E i \in DOMAIN LowerLetters : LowerLetters[i] = ch
  THEN UpperLetters[CHOOSE i \in DOMAIN LowerLetters : LowerLetters[i] = ch]
  ELSE ch

\* String.prototype.toLowerCase on one character.
LowerChar(ch) ==
  IF \E i \in DOMAIN UpperLetters : UpperLetters[i] = ch
  THEN LowerLetters[CHOOSE i \in DOMAIN UpperLetters : UpperLetters[i] = ch]
  ELSE ch

\* roomCode.toUpperCase(): a string is a sequence of characters.
toUpperCase(s) == [i \in DOMAIN s |-> UpperChar(s[i])]

toLowerCase(s) == [i \in DOMAIN s |-> LowerChar(s[i])]

\* Math.floor(Math.random() * chars.length) for i = 0..3: the draws the
\* model lets the four calls produce (0-based indices into chars).
Draws ==
  << << 10, 31, 12, 26 >>,
     << 0, 1, 2, 3 >>,
     << 24, 33, 0, 25 >>,
     << 7, 7, 7, 7 >> >>

\* generateRoomCode(): result += chars.charAt(index), four times.
generateRoomCode(draw) == [i \in 1..CodeLen |-> chars[draw[i] + 1]]

\* Codes a participant may submit: a generated code as shown to the host,
\* the same code in lower case (a ?room= link is not normalised), and a
\* code that is too short.
JoinInputs ==
  UNION { { generateRoomCode(Draws[d]), toLowerCase(generateRoomCode(Draws[d])) }
          : d \in 1..NumDraws }
  \cup { << "k", "7" >> }

\* ---------------------------------------------------------------- messages

MsgCreateOk == "Room berhasil dibuat!"
MsgCreate500 == "Gagal membuat room"
MsgCreateFallback == "Gagal membuat ruang, coba lagi."
MsgHostIdRequired == "hostId is required"
MsgCodeLength == "Kode ruang harus 4 karakter."
MsgJoinFallback == "Terjadi kesalahan saat bergabung."
MsgNotJoinable == "Kode ruang tidak ditemukan atau sudah penuh."
MsgJoinOk == "Berhasil bergabung ke room"
MsgClosed == "Room telah ditutup."
MsgStoreDown == "FetchError: request to the database failed"
MsgDuplicate == "duplicate key value violates unique constraint"
MsgHomeCreate == "Gagal membuat room, coba lagi."
MsgHomeNotJoinable == "Kode tidak ditemukan atau room sudah penuh."

\* ------------------------------------------------------------------- state

VARIABLES
  store,             \* table rooms: id -> row, NoRoom where no row has the id
  nextId,            \* the id the next inserted row gets
  room,              \* per client: React state `room` of useRoomManagement
  storage,           \* per client: sessionStorage item 'laju-room'
  req,               \* per client: the awaited request of the page, NoReq if none
  chan,              \* per client: channel room-db-changes:<id> of the realtime effect
  feed,              \* per client: postgres_changes payloads not yet handled
  connectionStatus,  \* per client: React state `connectionStatus`
  toast,             \* per client: the toast on screen
  outcome,           \* per client: observation of the last finished operation
  joined,            \* observation: <<client, room id>> of every join that succeeded
  closedCodes,       \* observation: room codes of deleted rows
  events,            \* operations, reloads and store failures so far
  now,               \* Date.now(), in milliseconds since the start
  lastActivity,      \* per client: React state `lastActivity`
  roomActivity,      \* observation: per room, time of its latest create, join
                     \* or transfer announcement
  bsub,              \* per client: channel room-broadcast:<id> of ConnectedRoom
  incomingFile,      \* per client: React state `incomingFile` of ConnectedRoom
  history,           \* per client: the transfer history of ConnectedRoom
  upload,            \* per client: the handleUpload in flight, NoUpload if none
  wire,              \* per client: broadcast messages received, handler not yet run
  announced          \* observation: the announcements published, in order

\* The state of the pairing protocol.
pairVars ==
  << store, nextId, room, storage, req, chan, feed, connectionStatus, toast,
     outcome, joined, closedCodes, events >>

\* The clock, the idle timer and the transfer layer of ConnectedRoom.
sessionVars ==
  << now, lastActivity, roomActivity, bsub, incomingFile, history, upload,
     wire, announced >>

vars ==
  << store, nextId, room, storage, req, chan, feed, connectionStatus, toast,
     outcome, joined, closedCodes, events, now, lastActivity, roomActivity,
     bsub, incomingFile, history, upload, wire, announced >>

\* JavaScript null for incomingFile.
NoFile == [url |-> ""]

\* No handleUpload in flight.
NoUpload == [stage |-> "idle"]

NoChan == [room |-> 0, state |-> "none"]

NoError == [message |-> ""]

\* outcome[c]: what the last finished operation of c was (op), what the store
\* did with it (why), the code the participant submitted (typed), the
\* requests the client sent for it (sends), the codes the handler generated
\* for it (tries) and the room it was about (target).
NoOutcome ==
  [op |-> "none", why |-> "none", typed |-> << >>, sends |-> 0, tries |-> 0,
   target |-> 0]

\* room?.status
Status(r) == IF r.id = 0 THEN "none" ELSE r.status

\* room?.host_id
HostOf(r) == IF r.id = 0 THEN NoClient ELSE r.host_id

\* ------------------------------------------------------------ the room store
\* The table and the function join_room_atomic live in the database; the
\* repository's files only call them.  They follow the store contract.

\* Some row of the table carries this room code.
CodeInUse(st, roomCode) ==
  \E r \in RoomIds : st[r].id # 0 /\ st[r].room_code = roomCode

\* InsertRoom without the unique constraint on room_code.
InsertRoomNoUnique(st, id, payload, storeUp) ==
  IF ~storeUp
  THEN [error |-> [message |-> MsgStoreDown], data |-> NoRoom, store |-> st]
  ELSE LET row == [id |-> id, room_code |-> payload.room_code,
                   host_id |-> payload.host_id, guest_id |-> NoClient,
                   status |-> "waiting"]
       IN [error |-> NoError, data |-> row, store |-> [st EXCEPT ![id] = row]]

\* insert(...).select().single(): the row gets its id and the column defaults
\* status = 'waiting', guest_id = null; a duplicate room_code violates the
\* unique constraint; storeUp = FALSE is a connectivity failure.
InsertRoom(st, id, payload, storeUp) ==
  IF ~storeUp
  THEN [error |-> [message |-> MsgStoreDown], data |-> NoRoom, store |-> st]
  ELSE IF CodeInUse(st, payload.room_code)
  THEN [error |-> [message |-> MsgDuplicate], data |-> NoRoom, store |-> st]
  ELSE LET row == [id |-> id, room_code |-> payload.room_code,
                   host_id |-> payload.host_id, guest_id |-> NoClient,
                   status |-> "waiting"]
       IN [error |-> NoError, data |-> row, store |-> [st EXCEPT ![id] = row]]

\* The rows a join without the test of the status would update.
JoinMatchesAnyStatus(st, p_room_code) ==
  { r \in RoomIds : /\ st[r].id # 0
                    /\ toUpperCase(st[r].room_code) = toUpperCase(p_room_code) }

\* The rows the conditional update of join_room_atomic matches.
JoinMatches(st, p_room_code) ==
  { r \in RoomIds : /\ st[r].id # 0
                    /\ toUpperCase(st[r].room_code) = toUpperCase(p_room_code)
                    /\ st[r].status = "waiting" }

\* rpc('join_room_atomic'): UPDATE rooms SET guest_id, status = 'connected'
\* WHERE room_code matches AND status = 'waiting' RETURNING *.
JoinRoomAtomic(st, p_room_code, p_guest_id, storeUp) ==
  IF ~storeUp
  THEN [error |-> [message |-> MsgStoreDown], data |-> << >>, store |-> st]
  ELSE LET hit == JoinMatches(st, p_room_code)
           new == [r \in RoomIds |->
                     IF r \in hit
                     THEN [st[r] EXCEPT !.guest_id = p_guest_id,
                                        !.status = "connected"]
                     ELSE st[r]]
       IN [error |-> NoError,
           data |-> SelectSeq([r \in RoomIds |-> new[r]],
                              LAMBDA row : row.id \in hit),
           store |-> new]

\* DeleteRoom answering with an error when no row has the id.
DeleteRoomStrict(st, id, storeUp) ==
  IF ~storeUp \/ id \notin RoomIds \/ st[id] = NoRoom
  THEN [error |-> [message |-> MsgStoreDown], store |-> st]
  ELSE [error |-> NoError,
        store |-> [r \in RoomIds |-> IF r = id THEN NoRoom ELSE st[r]]]

\* from('rooms').delete().eq('id', id): no row with the id is not an error.
DeleteRoom(st, id, storeUp) ==
  IF ~storeUp
  THEN [error |-> [message |-> MsgStoreDown], store |-> st]
  ELSE [error |-> NoError,
        store |-> [r \in RoomIds |-> IF r = id THEN NoRoom ELSE st[r]]]

\* --------------------------------------------- src/pages/api/create-room.js

\* The insert payload without host_id.
InsertPayloadNoHost(roomCode, hostId) ==
  [room_code |-> roomCode, host_id |-> NoClient]

\* .insert([{ room_code: roomCode, host_id: hostId }])
InsertPayload(roomCode, hostId) == [room_code |-> roomCode, host_id |-> hostId]

\* handler(req, res) for a POST: one generated code, one insert.  tries
\* counts the calls of generateRoomCode made for the request.
handler(st, id, hostId, draw, storeUp) ==
  IF hostId = NoClient
  THEN [status |-> 400, body |-> [message |-> MsgHostIdRequired],
        store |-> st, tries |-> 0]
  ELSE LET roomCode == generateRoomCode(draw)
           res == InsertRoom(st, id, InsertPayload(roomCode, hostId), storeUp)
       IN IF res.error # NoError
          THEN [status |-> 500, body |-> [message |-> MsgCreate500],
                store |-> st, tries |-> 1]
          ELSE [status |-> 200, body |-> res.data,
                store |-> res.store, tries |-> 1]

\* ------------------------------------------- src/pages/index.js: the client

\* LajuApp's routing: ConnectedRoom, WaitingRoom or the home screen.
Screen(r, clientId) ==
  IF Status(r) = "connected" THEN "ConnectedRoom"
  ELSE IF HostOf(r) = clientId /\ Status(r) = "waiting" THEN "WaitingRoom"
  ELSE "Home"

\* setValue writing the previous state to sessionStorage (the stale
\* storedValue of the closure instead of valueToStore).
setValueStale(storedValue, value) ==
  [storedValue |-> value, item |-> storedValue]

\* useLocalStorage.setValue: the React state and the sessionStorage item are
\* written together.  A room holds strings, numbers and null only, which
\* JSON.stringify and JSON.parse give back unchanged.
setValue(storedValue, value) == [storedValue |-> value, item |-> value]

\* An initial state that ignores the stored item.
initialRoomIgnoreItem(item) == NoRoom

\* useLocalStorage's initial state on mount: the stored item, else null.
initialRoom(item) == IF item.id # 0 THEN item ELSE NoRoom

\* The realtime effect without its cleanup: the channel of the room that
\* went away stays.
roomChannelNoCleanup(prev, value) ==
  IF value.id = 0 THEN prev ELSE [room |-> value.id, state |-> "joining"]

\* The channel the realtime effect holds after room.id changed from the room
\* of prev to value: the cleanup removed prev, and the effect subscribes a
\* channel for value unless there is no room.
roomChannel(prev, value) ==
  IF value.id = 0 THEN NoChan ELSE [room |-> value.id, state |-> "joining"]

\* The realtime effect of useRoomManagement (dependency room?.id): a new
\* room id removes the old channel and opens one for the new id; no room
\* sets the status to 'disconnected'.  keep is the feed left to the channel
\* when the id does not change.
RoomEffect(c, value, keep) ==
  IF value.id = room[c].id
  THEN /\ feed' = [feed EXCEPT ![c] = keep]
       /\ UNCHANGED << chan, connectionStatus >>
  ELSE /\ feed' = [feed EXCEPT ![c] = << >>]
       /\ chan' = [chan EXCEPT ![c] = roomChannel(chan[c], value)]
       /\ connectionStatus' =
            [connectionStatus EXCEPT ![c] =
               IF value.id = 0 THEN "disconnected" ELSE @]

\* A render of LajuApp with room = value renders ConnectedRoom again, if it
\* is on screen.  addToHistory is a new function in every render (setValue of
\* useLocalStorage is one), so the broadcast effect of ConnectedRoom
\* (dependencies room.id, addToHistory) removes its channel and subscribes a
\* new one.  A ConnectedRoom that comes on screen starts with incomingFile
\* null; one that leaves the screen loses its channel.  Whether a message on
\* its way to a channel that is replaced by one on the same topic still
\* reaches the handler is up to the realtime client: both outcomes.
LajuAppRender(c, value) ==
  /\ bsub' = [bsub EXCEPT ![c] =
                IF Screen(value, c) = "ConnectedRoom"
                THEN [room |-> value.id, state |-> "joining"]
                ELSE NoChan]
  /\ incomingFile' = [incomingFile EXCEPT ![c] =
                        IF /\ Screen(value, c) = "ConnectedRoom"
                           /\ Screen(room[c], c) = "ConnectedRoom"
                        THEN @ ELSE NoFile]
  /\ \E w \in IF /\ wire[c] # << >>
                 /\ Screen(value, c) = "ConnectedRoom"
                 /\ bsub[c].room = value.id
              THEN { wire[c], << >> } ELSE { << >> } :
       wire' = [wire EXCEPT ![c] = w]

\* setRoom(value) and the effects of the render it causes.
setRoom(c, value, keep) ==
  /\ room' = [room EXCEPT ![c] = setValue(room[c], value).storedValue]
  /\ storage' = [storage EXCEPT ![c] = setValue(room[c], value).item]
  /\ RoomEffect(c, value, keep)
  /\ LajuAppRender(c, value)

\* createRoomResult without the test of response.ok: the body of an error
\* response, an object with a message and no id (id 0 here), is installed as
\* the room.
createRoomResultNoOkCheck(response) ==
  [ok |-> TRUE,
   room |-> IF response.status >= 200 /\ response.status < 300
            THEN response.body
            ELSE [id |-> 0, message |-> response.body.message],
   toast |-> [kind |-> "success", msg |-> MsgCreateOk]]

\* createRoom after the fetch: response.ok, else the body's message or the
\* fallback text.
createRoomResult(response) ==
  IF response.status >= 200 /\ response.status < 300
  THEN [ok |-> TRUE, room |-> response.body,
        toast |-> [kind |-> "success", msg |-> MsgCreateOk]]
  ELSE [ok |-> FALSE, room |-> NoRoom,
        toast |-> [kind |-> "error",
                   msg |-> IF response.body.message # ""
                           THEN response.body.message
                           ELSE MsgCreateFallback]]

\* joinRoomCheck validating the format of the code before it is upper-cased.
joinRoomCheckStrict(clientId, roomCode) ==
  IF clientId = NoClient THEN "Client ID belum siap."
  ELSE IF Len(roomCode) # CodeLen \/ roomCode # toUpperCase(roomCode)
  THEN MsgCodeLength
  ELSE ""

\* joinRoom before the rpc: the two guards that throw.
joinRoomCheck(clientId, roomCode) ==
  IF clientId = NoClient THEN "Client ID belum siap."
  ELSE IF Len(roomCode) = 0 \/ Len(roomCode) # CodeLen THEN MsgCodeLength
  ELSE ""

\* A join that does not pass the client id on.
joinRoomArgsAnonymous(roomCode, clientId) ==
  [p_room_code |-> toUpperCase(roomCode), p_guest_id |-> NoClient]

\* The arguments of rpc('join_room_atomic', ...).
joinRoomArgs(roomCode, clientId) ==
  [p_room_code |-> toUpperCase(roomCode), p_guest_id |-> clientId]

\* joinRoomResult without the check for zero rows: data[0] of an empty
\* array is undefined, and the success toast is shown.
joinRoomResultNoRowCheck(res) ==
  IF res.error # NoError
  THEN [ok |-> FALSE, room |-> NoRoom,
        toast |-> [kind |-> "error",
                   msg |-> IF res.error.message # "" THEN res.error.message
                           ELSE MsgJoinFallback]]
  ELSE [ok |-> TRUE,
        room |-> IF Len(res.data) = 0 THEN NoRoom ELSE res.data[1],
        toast |-> [kind |-> "success", msg |-> MsgJoinOk]]

\* joinRoomResult throwing the store-error text when no row came back.
joinRoomResultEmptyAsError(res) ==
  IF res.error # NoError \/ Len(res.data) = 0
  THEN [ok |-> FALSE, room |-> NoRoom,
        toast |-> [kind |-> "error",
                   msg |-> IF res.error.message # "" THEN res.error.message
                           ELSE MsgJoinFallback]]
  ELSE [ok |-> TRUE, room |-> res.data[1],
        toast |-> [kind |-> "success", msg |-> MsgJoinOk]]

\* joinRoom after the rpc: an error, no rows, or data[0].
joinRoomResult(res) ==
  IF res.error # NoError
  THEN [ok |-> FALSE, room |-> NoRoom,
        toast |-> [kind |-> "error",
                   msg |-> IF res.error.message # "" THEN res.error.message
                           ELSE MsgJoinFallback]]
  ELSE IF Len(res.data) = 0
  THEN [ok |-> FALSE, room |-> NoRoom,
        toast |-> [kind |-> "error", msg |-> MsgNotJoinable]]
  ELSE [ok |-> TRUE, room |-> res.data[1],
        toast |-> [kind |-> "success", msg |-> MsgJoinOk]]

\* cancelRoom after the delete: whatever the delete returned, the local room
\* is cleared and the success toast shown.
cancelRoomResult(res) ==
  [room |-> NoRoom, toast |-> [kind |-> "success", msg |-> MsgClosed]]

\* The postgres_changes handler merging the snapshot into the cached room
\* field by field, taking the status only.
onPostgresChangesMerge(payload) ==
  [payload.old EXCEPT !.status = payload.new.status]

\* The postgres_changes handler: setRoom(payload.new).
onPostgresChanges(payload) == payload.new

\* The store answers, or fails (a failure counts as an event of its own).
StoreUp == IF events + 1 < MaxEvents THEN BOOLEAN ELSE { TRUE }

\* ------------------------------------------------------------------ actions

Init ==
  /\ store = [r \in RoomIds |-> NoRoom]
  /\ nextId = 1
  /\ room = [c \in Clients |-> NoRoom]
  /\ storage = [c \in Clients |-> NoRoom]
  /\ req = [c \in Clients |-> NoReq]
  /\ chan = [c \in Clients |-> NoChan]
  /\ feed = [c \in Clients |-> << >>]
  /\ connectionStatus = [c \in Clients |-> "disconnected"]
  /\ toast = [c \in Clients |-> NoToast]
  /\ outcome = [c \in Clients |-> NoOutcome]
  /\ joined = {}
  /\ closedCodes = {}
  /\ events = 0
  /\ now = 0
  /\ lastActivity = [c \in Clients |-> 0]
  /\ roomActivity = [r \in RoomIds |-> 0]
  /\ bsub = [c \in Clients |-> NoChan]
  /\ incomingFile = [c \in Clients |-> NoFile]
  /\ history = [c \in Clients |-> << >>]
  /\ upload = [c \in Clients |-> NoUpload]
  /\ wire = [c \in Clients |-> << >>]
  /\ announced = << >>

Loading == [kind |-> "loading", msg |-> ""]

\* A request in flight is visible to nobody before the server executes it,
\* so the step that sends a request also executes it; the response then
\* waits for the continuation of the client, which a reload of the page
\* discards.

\* createRoom up to the await of the fetch: the API route runs the handler.
createRoom(c) ==
  /\ Screen(room[c], c) = "Home"
  /\ req[c] = NoReq
  /\ events < MaxEvents
  /\ \E d \in 1..NumDraws, storeUp \in StoreUp :
       LET res == handler(store, nextId, c, Draws[d], storeUp)
           why == IF ~storeUp THEN "store"
                  ELSE IF CodeInUse(store, generateRoomCode(Draws[d]))
                  THEN "collision" ELSE "ok"
       IN /\ events' = IF storeUp THEN events + 1 ELSE events + 2
          /\ store' = res.store
          /\ nextId' = IF res.store # store THEN nextId + 1 ELSE nextId
          /\ req' = [req EXCEPT ![c] =
                       [op |-> "create",
                        response |-> [status |-> res.status, body |-> res.body],
                        sends |-> 1, tries |-> res.tries, why |-> why]]
          /\ roomActivity' = IF res.store # store
                             THEN [roomActivity EXCEPT ![nextId] = now]
                             ELSE roomActivity
  /\ toast' = [toast EXCEPT ![c] = Loading]
  /\ outcome' = [outcome EXCEPT ![c] = NoOutcome]
  /\ UNCHANGED << room, storage, chan, feed, connectionStatus, joined,
                  closedCodes, now, lastActivity, bsub, incomingFile, history,
                  upload, wire, announced >>

\* createRoom from the response on.
createRoomDone(c) ==
  /\ req[c].op = "create"
  /\ LET r == createRoomResult(req[c].response)
     IN /\ IF r.ok
           THEN /\ setRoom(c, r.room, feed[c])
                /\ lastActivity' = [lastActivity EXCEPT ![c] = now]
           ELSE UNCHANGED << room, storage, chan, feed, connectionStatus,
                             lastActivity, bsub, incomingFile, wire >>
        /\ toast' = [toast EXCEPT ![c] = r.toast]
        /\ outcome' = [outcome EXCEPT ![c] =
                         [op |-> "create", why |-> req[c].why, typed |-> << >>,
                          sends |-> req[c].sends, tries |-> req[c].tries,
                          target |-> r.room.id]]
  /\ req' = [req EXCEPT ![c] = NoReq]
  /\ UNCHANGED << store, nextId, joined, closedCodes, events, now,
                  roomActivity, history, upload, announced >>

\* The id of the row carrying the code, compared without case; 0 if none.
RoomWithCode(st, code) ==
  IF \E r \in RoomIds :
       st[r].id # 0 /\ toUpperCase(st[r].room_code) = toUpperCase(code)
  THEN CHOOSE r \in RoomIds :
         st[r].id # 0 /\ toUpperCase(st[r].room_code) = toUpperCase(code)
  ELSE 0

\* joinRoom up to the await of the rpc: a guard that throws ends it with the
\* error toast; else the database runs join_room_atomic and publishes every
\* updated row to the channels subscribed to it.
joinRoom(c, roomCode) ==
  /\ Screen(room[c], c) = "Home"
  /\ req[c] = NoReq
  /\ events < MaxEvents
  /\ LET bad == joinRoomCheck(c, roomCode)
         args == joinRoomArgs(roomCode, c)
     IN IF bad # ""
        THEN /\ toast' = [toast EXCEPT ![c] = [kind |-> "error", msg |-> bad]]
             /\ outcome' = [outcome EXCEPT ![c] =
                              [op |-> "join", why |-> "invalid",
                               typed |-> roomCode, sends |-> 0, tries |-> 0,
                               target |-> 0]]
             /\ events' = events + 1
             /\ UNCHANGED << store, feed, req, roomActivity >>
        ELSE \E storeUp \in StoreUp :
          LET res == JoinRoomAtomic(store, args.p_room_code, args.p_guest_id,
                                    storeUp)
              target == RoomWithCode(store, roomCode)
              why == IF ~storeUp THEN "store"
                     ELSE IF target = 0
                     THEN IF toUpperCase(roomCode) \in closedCodes
                          THEN "deleted" ELSE "unknown"
                     ELSE IF store[target].status = "waiting" THEN "matched"
                     ELSE "connected"
          IN /\ events' = IF storeUp THEN events + 1 ELSE events + 2
             /\ store' = res.store
             /\ feed' = [k \in Clients |->
                           IF /\ chan[k].state = "joined"
                              /\ res.store[chan[k].room] # store[chan[k].room]
                           THEN Append(feed[k],
                                       [old |-> store[chan[k].room],
                                        new |-> res.store[chan[k].room]])
                           ELSE feed[k]]
             /\ req' = [req EXCEPT ![c] =
                          [op |-> "join",
                           result |-> [data |-> res.data, error |-> res.error],
                           typed |-> roomCode, sends |-> 1,
                           why |-> why, target |-> target]]
             /\ roomActivity' = IF res.store # store
                                THEN [roomActivity EXCEPT ![target] = now]
                                ELSE roomActivity
             /\ toast' = [toast EXCEPT ![c] = Loading]
             /\ outcome' = [outcome EXCEPT ![c] = NoOutcome]
  /\ UNCHANGED << nextId, room, storage, chan, connectionStatus, joined,
                  closedCodes, now, lastActivity, bsub, incomingFile, history,
                  upload, wire, announced >>

\* joinRoom from the rpc's result on.
joinRoomDone(c) ==
  /\ req[c].op = "join"
  /\ LET r == joinRoomResult(req[c].result)
     IN /\ IF r.ok
           THEN /\ setRoom(c, r.room, feed[c])
                /\ lastActivity' = [lastActivity EXCEPT ![c] = now]
           ELSE UNCHANGED << room, storage, chan, feed, connectionStatus,
                             lastActivity, bsub, incomingFile, wire >>
        /\ toast' = [toast EXCEPT ![c] = r.toast]
        /\ outcome' = [outcome EXCEPT ![c] =
                         [op |-> "join", why |-> req[c].why,
                          typed |-> req[c].typed,
                          sends |-> req[c].sends, tries |-> 0,
                          target |-> req[c].target]]
        /\ joined' = IF r.ok THEN joined \cup { << c, req[c].target >> }
                     ELSE joined
  /\ req' = [req EXCEPT ![c] = NoReq]
  /\ UNCHANGED << store, nextId, closedCodes, events, now, roomActivity,
                  history, upload, announced >>

\* cancelRoom up to the await of the delete (the Batalkan button of
\* WaitingRoom and ConnectedRoom): room is set, so the database runs the
\* delete.  Only UPDATE events are published.
cancelRoom(c) ==
  /\ Screen(room[c], c) # "Home"
  /\ req[c] = NoReq
  /\ events < MaxEvents
  /\ \E storeUp \in StoreUp :
       LET res == DeleteRoom(store, room[c].id, storeUp)
       IN /\ events' = IF storeUp THEN events + 1 ELSE events + 2
          /\ store' = res.store
          /\ closedCodes' =
               IF res.store # store
               THEN closedCodes \cup { store[room[c].id].room_code }
               ELSE closedCodes
          /\ req' = [req EXCEPT ![c] =
                       [op |-> "delete", result |-> [error |-> res.error],
                        sends |-> 1, id |-> room[c].id,
                        why |-> IF storeUp THEN "ok" ELSE "store"]]
  /\ outcome' = [outcome EXCEPT ![c] = NoOutcome]
  /\ UNCHANGED << nextId, room, storage, chan, feed, connectionStatus, toast,
                  joined, sessionVars >>

\* cancelRoom from the delete's result on.
cancelRoomDone(c) ==
  /\ req[c].op = "delete"
  /\ LET r == cancelRoomResult(req[c].result)
     IN /\ setRoom(c, r.room, feed[c])
        /\ toast' = [toast EXCEPT ![c] = r.toast]
        /\ outcome' = [outcome EXCEPT ![c] =
                         [op |-> "delete", why |-> req[c].why, typed |-> << >>,
                          sends |-> req[c].sends, tries |-> 0,
                          target |-> req[c].id]]
  /\ req' = [req EXCEPT ![c] = NoReq]
  /\ UNCHANGED << store, nextId, joined, closedCodes, events, now,
                  lastActivity, roomActivity, history, upload, announced >>

\* The subscribe callback with status SUBSCRIBED: from now on the channel
\* receives the updates of its room.
ChannelSubscribed(c) ==
  /\ chan[c].state = "joining"
  /\ chan' = [chan EXCEPT ![c].state = "joined"]
  /\ connectionStatus' = [connectionStatus EXCEPT ![c] = "connected"]
  /\ IF connectionStatus[c] # "connected"
     THEN LajuAppRender(c, room[c])
     ELSE UNCHANGED << bsub, incomingFile, wire >>
  /\ UNCHANGED << store, nextId, room, storage, req, feed, toast, outcome,
                  joined, closedCodes, events, now, lastActivity,
                  roomActivity, history, upload, announced >>

\* The postgres_changes handler runs on the oldest undelivered payload.
DeliverSnapshot(c) ==
  /\ feed[c] # << >>
  /\ setRoom(c, onPostgresChanges(Head(feed[c])), Tail(feed[c]))
  /\ lastActivity' = [lastActivity EXCEPT ![c] = now]
  /\ UNCHANGED << store, nextId, req, toast, outcome, joined, closedCodes,
                  events, now, roomActivity, history, upload, announced >>

\* The participant reloads the page: the React state is rebuilt from
\* sessionStorage, the effects run again, and the continuation of an awaited
\* request is lost.
Reload(c) ==
  /\ events < MaxEvents
  /\ events' = events + 1
  /\ room' = [room EXCEPT ![c] = initialRoom(storage[c])]
  /\ chan' = [chan EXCEPT ![c] =
                IF initialRoom(storage[c]).id = 0 THEN NoChan
                ELSE [room |-> initialRoom(storage[c]).id, state |-> "joining"]]
  /\ feed' = [feed EXCEPT ![c] = << >>]
  /\ connectionStatus' = [connectionStatus EXCEPT ![c] = "disconnected"]
  /\ req' = [req EXCEPT ![c] = NoReq]
  /\ toast' = [toast EXCEPT ![c] = NoToast]
  /\ outcome' = [outcome EXCEPT ![c] = NoOutcome]
  /\ lastActivity' = [lastActivity EXCEPT ![c] = now]
  /\ bsub' = [bsub EXCEPT ![c] =
                IF Screen(initialRoom(storage[c]), c) = "ConnectedRoom"
                THEN [room |-> storage[c].id, state |-> "joining"]
                ELSE NoChan]
  /\ incomingFile' = [incomingFile EXCEPT ![c] = NoFile]
  /\ wire' = [wire EXCEPT ![c] = << >>]
  /\ upload' = [upload EXCEPT ![c] = NoUpload]
  /\ UNCHANGED << store, nextId, storage, joined, closedCodes, now,
                  roomActivity, history, announced >>

\* The pairing protocol alone: no time passes, nobody sends a file, and the
\* broadcast channel of ConnectedRoom is never acknowledged.
Next ==
  \E c \in Clients :
    \/ createRoom(c)
    \/ createRoomDone(c)
    \/ \E roomCode \in JoinInputs : joinRoom(c, roomCode)
    \/ joinRoomDone(c)
    \/ cancelRoom(c)
    \/ cancelRoomDone(c)
    \/ ChannelSubscribed(c)
    \/ DeliverSnapshot(c)
    \/ Reload(c)

\* The page LajuApp of src/pages/index.js against the store.
Spec == Init /\ [][Next]_vars

\* ------------------------------------------------ a host waiting in its room
\* The state in which c1 has created a room with the first draw, holds it and
\* has its change-feed channel subscribed (createRoom, createRoomDone,
\* ChannelSubscribed from Init), with the event budget still whole.

HostedRoom ==
  [id |-> 1, room_code |-> generateRoomCode(Draws[1]), host_id |-> "c1",
   guest_id |-> NoClient, status |-> "waiting"]

Hosted ==
  /\ store = [r \in RoomIds |-> IF r = 1 THEN HostedRoom ELSE NoRoom]
  /\ nextId = 2
  /\ room = [c \in Clients |-> IF c = "c1" THEN HostedRoom ELSE NoRoom]
  /\ storage = [c \in Clients |-> IF c = "c1" THEN HostedRoom ELSE NoRoom]
  /\ req = [c \in Clients |-> NoReq]
  /\ chan = [c \in Clients |->
               IF c = "c1" THEN [room |-> 1, state |-> "joined"] ELSE NoChan]
  /\ feed = [c \in Clients |-> << >>]
  /\ connectionStatus = [c \in Clients |->
                           IF c = "c1" THEN "connected" ELSE "disconnected"]
  /\ toast = [c \in Clients |->
                IF c = "c1" THEN [kind |-> "success", msg |-> MsgCreateOk]
                ELSE NoToast]
  /\ outcome = [c \in Clients |->
                  IF c = "c1"
                  THEN [op |-> "create", why |-> "ok", typed |-> << >>,
                        sends |-> 1, tries |-> 1, target |-> 1]
                  ELSE NoOutcome]
  /\ joined = {}
  /\ closedCodes = {}
  /\ now = 0
  /\ lastActivity = [c \in Clients |-> 0]
  /\ roomActivity = [r \in RoomIds |-> 0]
  /\ bsub = [c \in Clients |-> NoChan]
  /\ incomingFile = [c \in Clients |-> NoFile]
  /\ history = [c \in Clients |-> << >>]
  /\ upload = [c \in Clients |-> NoUpload]
  /\ wire = [c \in Clients |-> << >>]
  /\ announced = << >>

InitHosted == Hosted /\ events = 0

\* The change feed delivers the oldest undelivered snapshot of c's channel a
\* second time (a duplicate after a reconnection of the transport).
DuplicateSnapshot(c) ==
  /\ feed[c] # << >>
  /\ events < MaxEvents
  /\ events' = events + 1
  /\ feed' = [feed EXCEPT ![c] = << Head(feed[c]) >> \o feed[c]]
  /\ UNCHANGED << store, nextId, room, storage, req, chan, connectionStatus,
                  toast, outcome, joined, closedCodes, sessionVars >>

NextHosted ==
  \E c \in Clients :
    \/ createRoom(c)
    \/ createRoomDone(c)
    \/ \E roomCode \in JoinInputs : joinRoom(c, roomCode)
    \/ joinRoomDone(c)
    \/ cancelRoom(c)
    \/ cancelRoomDone(c)
    \/ ChannelSubscribed(c)
    \/ DeliverSnapshot(c)
    \/ DuplicateSnapshot(c)
    \/ Reload(c)

\* LajuApp from the moment a host waits in its room, with a change feed that
\* may repeat a snapshot.
SpecHosted == InitHosted /\ [][NextHosted]_vars

\* ------------------------------------------ src/pages/index.js: the idle timer

\* The limit of the cleanup effect, 30 * 60 * 1000 ms.
IdleMs == 1800000

\* The period of cleanupInterval, 60 * 1000 ms.
SweepMs == 60000

\* The time the model lets pass, in periods of cleanupInterval.
MaxMinutes == 31

\* The periods in which no callback can find a room idle that was active at
\* their start: all but the last before the limit.
QuietPeriods == IdleMs \div SweepMs - 1

\* How many periods pass in one step: the quiet periods after the start at
\* once, then one at a time.
TickStep == IF now < QuietPeriods * SweepMs THEN QuietPeriods ELSE 1

\* A timer callback runs on time or late, never early (milliseconds).
TimerDelays == { 0, 1 }

\* The callback of cleanupInterval at time t: inactiveTime > 30 * 60 * 1000.
cleanupDue(t, activity) ==
  LET inactiveTime == t - activity
  IN inactiveTime > IdleMs

\* The rows left when every page in cs runs the delete of its cancelRoom.
RECURSIVE SweepStore(_, _, _)
SweepStore(st, cs, storeUp) ==
  IF cs = {} THEN st
  ELSE LET c == CHOOSE k \in cs : TRUE
       IN SweepStore(DeleteRoom(st, room[c].id, storeUp).store, cs \ { c },
                     storeUp)

\* TickStep periods of cleanupInterval pass while no request is awaited, no
\* message is on its way and no subscription is pending.  The intervals of all pages are in phase (every
\* step of the model happens at a multiple of the period); the callbacks of
\* the last period run cancelRoom, up to the await of its delete, for the
\* pages that hold a room and find it idle.
Tick ==
  LET n == TickStep
  IN
    /\ \A c \in Clients :
         /\ req[c] = NoReq
         /\ feed[c] = << >>
         /\ wire[c] = << >>
         /\ upload[c] = NoUpload
         /\ chan[c].state # "joining"
         /\ bsub[c].state # "joining"
    /\ now + n * SweepMs <= MaxMinutes * SweepMs
    /\ \A c \in Clients :
         n > 1 /\ room[c].id # 0 =>
           now + (n - 1) * SweepMs - lastActivity[c] < IdleMs
    /\ now' = now + n * SweepMs
    /\ \E late \in [Clients -> TimerDelays],
          storeUp \in IF events < MaxEvents THEN BOOLEAN ELSE { TRUE } :
         LET due == { c \in Clients :
                        /\ room[c].id # 0
                        /\ cleanupDue(now' + late[c], lastActivity[c]) }
             left == SweepStore(store, due, storeUp)
         IN /\ storeUp \/ due # {}
            /\ events' = IF storeUp THEN events ELSE events + 1
            /\ store' = left
            /\ closedCodes' =
                 closedCodes \cup
                   { store[r].room_code : r \in { k \in RoomIds : left[k] # store[k] } }
            /\ req' = [c \in Clients |->
                         IF c \in due
                         THEN [op |-> "delete",
                               result |-> [error |-> DeleteRoom(store, room[c].id,
                                                                storeUp).error],
                               sends |-> 1, id |-> room[c].id,
                               why |-> IF storeUp THEN "ok" ELSE "store"]
                         ELSE req[c]]
            /\ outcome' = [c \in Clients |->
                             IF c \in due THEN NoOutcome ELSE outcome[c]]
    /\ UNCHANGED << nextId, room, storage, chan, feed, connectionStatus, toast,
                    joined, lastActivity, roomActivity, bsub, incomingFile,
                    history, upload, wire, announced >>

\* ------------------------------- src/pages/index.js: ConnectedRoom's transfers

\* The files a participant picks: a document and a file above the size
\* limit.  No name holds white space.
Files ==
  { [name |-> "report.pdf", type |-> "application/pdf", image |-> FALSE,
     size |-> 1048576],
    [name |-> "film.mkv", type |-> "video/x-matroska", image |-> FALSE,
     size |-> 250 * 1024 * 1024] }

\* The size limit of handleUpload, 200 * 1024 * 1024 bytes.
MaxFileSize == 209715200

\* expiresIn of the signed URL, 300 seconds, in milliseconds.
GrantMs == 300000

\* The entries useTransferHistory keeps.
HistoryMax == 20

MsgTooBig == "File terlalu besar (Maks 200MB)."
MsgGrantFallback == "Gagal mendapatkan izin upload."
MsgGrant500 == "Gagal membuat URL upload"
MsgPutFailed == "Upload gagal."
MsgPreparing == "Mempersiapkan file..."
MsgSending == "Mengirim link..."
MsgSent == "File terkirim!"
MsgReceived == "Menerima file"

\* createThumbnail: null unless the file is an image, else a JPEG data URL.
createThumbnail(file) == IF file.image THEN "data:image/jpeg" ELSE ""

\* The handler of /api/generate-upload-url at time t: the object key is
\* Date.now() and the file name, the signed URL expires after 300 seconds;
\* signerUp = FALSE is getSignedUrl throwing.
generateUploadUrl(fileName, fileType, t, signerUp) ==
  IF ~signerUp
  THEN [status |-> 500, body |-> [message |-> MsgGrant500]]
  ELSE LET uniqueFileName == << t, fileName >>
       IN [status |-> 200,
           body |-> [uploadUrl |-> [base |-> "signed", key |-> uniqueFileName,
                                    type |-> fileType, expires |-> t + GrantMs],
                     downloadUrl |-> [base |-> "public",
                                      key |-> uniqueFileName]]]

\* The payload handleUpload publishes.
uploadPayload(file, thumbnail, grant) ==
  [fileName |-> file.name, url |-> grant.downloadUrl, thumbnail |-> thumbnail,
   type |-> file.type, size |-> file.size]

\* { ...payload, timestamp: Date.now(), direction }.
historyItem(payload, t, direction) ==
  [fileName |-> payload.fileName, url |-> payload.url,
   thumbnail |-> payload.thumbnail, type |-> payload.type,
   size |-> payload.size, timestamp |-> t, direction |-> direction]

\* addToHistory: [item, ...prev].slice(0, 20).
addToHistory(prev, item) ==
  LET all == << item >> \o prev
  IN SubSeq(all, 1, IF Len(all) < HistoryMax THEN Len(all) ELSE HistoryMax)

\* A broadcast layer that keeps a message for the channels still joining
\* its topic and hands it over once they are subscribed.
SubscribersPending(rid, from) ==
  { k \in Clients : k # from /\ bsub[k].room = rid }

\* The broadcast layer (the realtime service, not part of the repository):
\* the pages, other than the publisher, whose channel on the room's topic is
\* subscribed at the time of the publish.
Subscribers(rid, from) ==
  { k \in Clients : k # from /\ bsub[k] = [room |-> rid, state |-> "joined"] }

\* A state change inside ConnectedRoom renders it again, and the broadcast
\* effect replaces its channel (see LajuAppRender); rest are the messages on
\* their way to the page.  A page that no longer shows ConnectedRoom has no
\* channel and nothing to render.
ConnectedRoomRender(c, rest) ==
  IF Screen(room[c], c) = "ConnectedRoom"
  THEN /\ bsub' = [bsub EXCEPT ![c] = [room |-> room[c].id, state |-> "joining"]]
       /\ \E w \in { rest, << >> } : wire' = [wire EXCEPT ![c] = w]
  ELSE /\ bsub' = bsub
       /\ wire' = [wire EXCEPT ![c] = rest]

\* A failure of the signer or of the object store counts as an event.
ServiceUp == IF events + 1 < MaxEvents THEN BOOLEAN ELSE { TRUE }

\* handleUpload with one picked file, up to the await of the fetch: a file
\* above the limit ends it with the error toast and no request; else the API
\* route issues the grant.
handleUpload(c, file) ==
  /\ Screen(room[c], c) = "ConnectedRoom"
  /\ upload[c] = NoUpload
  /\ req[c] = NoReq
  /\ events < MaxEvents
  /\ IF file.size > MaxFileSize
     THEN /\ toast' = [toast EXCEPT ![c] = [kind |-> "error", msg |-> MsgTooBig]]
          /\ events' = events + 1
          /\ UNCHANGED upload
     ELSE \E signerUp \in ServiceUp :
            /\ events' = IF signerUp THEN events + 1 ELSE events + 2
            /\ toast' = [toast EXCEPT ![c] = [kind |-> "loading",
                                              msg |-> MsgPreparing]]
            /\ upload' = [upload EXCEPT ![c] =
                            [stage |-> "grant", room |-> room[c].id,
                             file |-> file,
                             thumbnail |-> createThumbnail(file),
                             response |-> generateUploadUrl(file.name, file.type,
                                                            now, signerUp)]]
  /\ ConnectedRoomRender(c, wire[c])
  /\ UNCHANGED << store, nextId, room, storage, req, chan, feed,
                  connectionStatus, outcome, joined, closedCodes, now,
                  lastActivity, roomActivity, incomingFile, history, announced >>

\* A grant failure reported with the text of a failed byte transfer.
grantErrorAsUpload(body) == MsgPutFailed

\* The error thrown for a grant response that is not ok: errorData.message,
\* else the fallback text.
grantError(body) == IF body.message # "" THEN body.message ELSE MsgGrantFallback

\* The status of the XMLHttpRequest when the PUT ends: 200, or 403 for a
\* refused upload.
PutRefused == 403

\* An xhr.onload that resolves whatever the status.
xhrResolvesAlways(status) == TRUE

\* xhr.onload: resolve() if xhr.status >= 200 && xhr.status < 300, else
\* reject.
xhrResolves(status) == status >= 200 /\ status < 300

\* handleUpload from the grant's response to the await of the PUT: an error
\* response ends it with the error toast; else the object store takes the
\* bytes or fails.
handleUploadGranted(c) ==
  /\ upload[c].stage = "grant"
  /\ LET response == upload[c].response
     IN IF ~(response.status >= 200 /\ response.status < 300)
        THEN /\ toast' = [toast EXCEPT ![c] =
                            [kind |-> "error",
                             msg |-> grantError(response.body)]]
             /\ upload' = [upload EXCEPT ![c] = NoUpload]
             /\ UNCHANGED events
        ELSE \E putOk \in IF events < MaxEvents THEN BOOLEAN ELSE { TRUE } :
               /\ events' = IF putOk THEN events ELSE events + 1
               /\ upload' = [upload EXCEPT ![c] =
                               [stage |-> "put", room |-> upload[c].room,
                                file |-> upload[c].file,
                                thumbnail |-> upload[c].thumbnail,
                                grant |-> response.body,
                                status |-> IF putOk THEN 200 ELSE PutRefused]]
               /\ UNCHANGED toast
  /\ ConnectedRoomRender(c, wire[c])
  /\ UNCHANGED << store, nextId, room, storage, req, chan, feed,
                  connectionStatus, outcome, joined, closedCodes, now,
                  lastActivity, roomActivity, incomingFile, history, announced >>

\* handleUpload from the end of the PUT to the await of channel.send: a
\* failed PUT ends it with the error toast; else the payload is published to
\* the subscribers of room-broadcast:<id>.
handleUploadStored(c) ==
  /\ upload[c].stage = "put"
  /\ IF ~xhrResolves(upload[c].status)
     THEN /\ toast' = [toast EXCEPT ![c] = [kind |-> "error",
                                            msg |-> MsgPutFailed]]
          /\ upload' = [upload EXCEPT ![c] = NoUpload]
          /\ ConnectedRoomRender(c, wire[c])
          /\ UNCHANGED << announced, roomActivity >>
     ELSE LET payload == uploadPayload(upload[c].file, upload[c].thumbnail,
                                       upload[c].grant)
              to == Subscribers(upload[c].room, c)
          IN /\ toast' = [toast EXCEPT ![c] = [kind |-> "loading",
                                               msg |-> MsgSending]]
             /\ upload' = [upload EXCEPT ![c] =
                             [stage |-> "send", room |-> upload[c].room,
                              payload |-> payload]]
             /\ wire' = [k \in Clients |->
                           IF k \in to THEN Append(wire[k], payload)
                           ELSE wire[k]]
             /\ announced' = Append(announced,
                                    [room |-> upload[c].room, from |-> c,
                                     at |-> now, to |-> to,
                                     payload |-> payload,
                                     file |-> upload[c].file,
                                     grant |-> upload[c].grant])
             /\ roomActivity' =
                  [roomActivity EXCEPT ![upload[c].room] = now]
             /\ UNCHANGED bsub
  /\ UNCHANGED << store, nextId, room, storage, req, chan, feed,
                  connectionStatus, outcome, joined, closedCodes, events, now,
                  lastActivity, incomingFile, history >>

\* handleUpload after channel.send: the outgoing entry of the history and
\* the success toast.
handleUploadSent(c) ==
  /\ upload[c].stage = "send"
  /\ history' = [history EXCEPT ![c] =
                   addToHistory(@, historyItem(upload[c].payload, now,
                                               "outgoing"))]
  /\ toast' = [toast EXCEPT ![c] = [kind |-> "success", msg |-> MsgSent]]
  /\ upload' = [upload EXCEPT ![c] = NoUpload]
  /\ ConnectedRoomRender(c, wire[c])
  /\ UNCHANGED << store, nextId, room, storage, req, chan, feed,
                  connectionStatus, outcome, joined, closedCodes, events, now,
                  lastActivity, roomActivity, incomingFile, announced >>

\* The broadcast channel of ConnectedRoom is subscribed: from now on it
\* receives what is published on its topic.
BroadcastSubscribed(c) ==
  /\ bsub[c].state = "joining"
  /\ bsub' = [bsub EXCEPT ![c].state = "joined"]
  /\ UNCHANGED << pairVars, now, lastActivity, roomActivity, incomingFile,
                  history, upload, wire, announced >>

\* A handler that keeps an incoming file not yet dismissed and installs the
\* payload only when there is none.
setIncomingFileKeep(prev, payload) == IF prev # NoFile THEN prev ELSE payload

\* setIncomingFile(payload) of the broadcast handler: the state is replaced.
setIncomingFile(prev, payload) == payload

\* The handler of the 'file-transfer' broadcast runs on the oldest message:
\* setIncomingFile, addToHistory, the toast.
onBroadcast(c) ==
  /\ wire[c] # << >>
  /\ LET payload == Head(wire[c])
     IN /\ incomingFile' = [incomingFile EXCEPT ![c] =
                              setIncomingFile(@, payload)]
        /\ history' = [history EXCEPT ![c] =
                         addToHistory(@, historyItem(payload, now, "incoming"))]
  /\ toast' = [toast EXCEPT ![c] = [kind |-> "success", msg |-> MsgReceived]]
  /\ ConnectedRoomRender(c, Tail(wire[c]))
  /\ UNCHANGED << store, nextId, room, storage, req, chan, feed,
                  connectionStatus, outcome, joined, closedCodes, events, now,
                  lastActivity, roomActivity, upload, announced >>

\* The close button of the incoming file: setIncomingFile(null).
clearIncoming(c) ==
  /\ Screen(room[c], c) = "ConnectedRoom"
  /\ incomingFile[c] # NoFile
  /\ incomingFile' = [incomingFile EXCEPT ![c] = NoFile]
  /\ ConnectedRoomRender(c, wire[c])
  /\ UNCHANGED << pairVars, now, lastActivity, roomActivity, history, upload,
                  announced >>

\* The host of the waiting room and one more participant.
Pair == { "c1", "c2" }

\* LajuApp from the moment a host waits in its room, with the clock running
\* and the two participants sending files.
NextIdle ==
  \/ Tick
  \/ \E c \in Pair :
       \/ createRoom(c)
       \/ createRoomDone(c)
       \/ \E roomCode \in JoinInputs : joinRoom(c, roomCode)
       \/ joinRoomDone(c)
       \/ cancelRoom(c)
       \/ cancelRoomDone(c)
       \/ ChannelSubscribed(c)
       \/ DeliverSnapshot(c)
       \/ Reload(c)
       \/ \E file \in Files : handleUpload(c, file)
       \/ handleUploadGranted(c)
       \/ handleUploadStored(c)
       \/ handleUploadSent(c)
       \/ BroadcastSubscribed(c)
       \/ onBroadcast(c)

SpecIdle == InitHosted /\ [][NextIdle]_vars

\* ------------------------------------------------ two participants connected
\* The state in which c2 has joined c1's room, both pages show ConnectedRoom
\* and every channel is subscribed (from Hosted: joinRoom, joinRoomDone,
\* DeliverSnapshot, ChannelSubscribed, BroadcastSubscribed twice), with the
\* event budget still whole.

PairedRoom ==
  [HostedRoom EXCEPT !.guest_id = "c2", !.status = "connected"]

Paired ==
  /\ store = [r \in RoomIds |-> IF r = 1 THEN PairedRoom ELSE NoRoom]
  /\ nextId = 2
  /\ room = [c \in Clients |-> IF c \in Pair THEN PairedRoom ELSE NoRoom]
  /\ storage = [c \in Clients |-> IF c \in Pair THEN PairedRoom ELSE NoRoom]
  /\ req = [c \in Clients |-> NoReq]
  /\ chan = [c \in Clients |->
               IF c \in Pair THEN [room |-> 1, state |-> "joined"] ELSE NoChan]
  /\ feed = [c \in Clients |-> << >>]
  /\ connectionStatus = [c \in Clients |->
                           IF c \in Pair THEN "connected" ELSE "disconnected"]
  /\ toast = [c \in Clients |->
                IF c = "c1" THEN [kind |-> "success", msg |-> MsgCreateOk]
                ELSE IF c = "c2" THEN [kind |-> "success", msg |-> MsgJoinOk]
                ELSE NoToast]
  /\ outcome = [c \in Clients |->
                  IF c = "c1"
                  THEN [op |-> "create", why |-> "ok", typed |-> << >>,
                        sends |-> 1, tries |-> 1, target |-> 1]
                  ELSE IF c = "c2"
                  THEN [op |-> "join", why |-> "matched",
                        typed |-> HostedRoom.room_code, sends |-> 1,
                        tries |-> 0, target |-> 1]
                  ELSE NoOutcome]
  /\ joined = { << "c2", 1 >> }
  /\ closedCodes = {}
  /\ now = 0
  /\ lastActivity = [c \in Clients |-> 0]
  /\ roomActivity = [r \in RoomIds |-> 0]
  /\ bsub = [c \in Clients |->
               IF c \in Pair THEN [room |-> 1, state |-> "joined"] ELSE NoChan]
  /\ incomingFile = [c \in Clients |-> NoFile]
  /\ history = [c \in Clients |-> << >>]
  /\ upload = [c \in Clients |-> NoUpload]
  /\ wire = [c \in Clients |-> << >>]
  /\ announced = << >>

InitPaired == Paired /\ events = 0

NextSend ==
  \E c \in Pair :
    \/ \E file \in Files : handleUpload(c, file)
    \/ handleUploadGranted(c)
    \/ handleUploadStored(c)
    \/ handleUploadSent(c)
    \/ BroadcastSubscribed(c)
    \/ onBroadcast(c)
    \/ cancelRoom(c)
    \/ cancelRoomDone(c)
    \/ ChannelSubscribed(c)
    \/ Reload(c)

\* ConnectedRoom of src/pages/index.js from the moment two participants are
\* connected: they send files, reload and close the room.
SpecSend == InitPaired /\ [][NextSend]_vars

\* An image a participant picks.
Photos ==
  { [name |-> "photo.png", type |-> "image/png", image |-> TRUE,
     size |-> 524288] }

NextReceive ==
  \/ \E file \in Files \cup Photos : handleUpload("c1", file)
  \/ handleUploadGranted("c1")
  \/ handleUploadStored("c1")
  \/ handleUploadSent("c1")
  \/ \E c \in Pair : BroadcastSubscribed(c)
  \/ onBroadcast("c2")
  \/ clearIncoming("c2")

\* ConnectedRoom of src/pages/index.js, the host sending one file after the
\* other and the guest receiving and dismissing them.
SpecReceive == InitPaired /\ [][NextReceive]_vars

\* ------------------------- src/pages/index.js: the subscribe status callback
\* The statuses with which the realtime client reports that the change-feed
\* channel failed.
FailureStatuses == { "CHANNEL_ERROR", "TIMED_OUT", "CLOSED" }

\* A status callback that gives the room up when the channel is closed.
subscribeCallbackLeaveOnClosed(status, prevStatus, prevRoom) ==
  [connectionStatus |->
     IF status = "SUBSCRIBED" THEN "connected"
     ELSE IF status \in { "CHANNEL_ERROR", "TIMED_OUT" } THEN "reconnecting"
     ELSE IF status = "CLOSED" THEN "closed"
     ELSE prevStatus,
   room |-> IF status = "CLOSED" THEN NoRoom ELSE prevRoom]

\* The callback given to subscribe: what it makes of the hook's
\* connectionStatus and room.  It calls setConnectionStatus only.
subscribeCallback(status, prevStatus, prevRoom) ==
  [connectionStatus |->
     IF status = "SUBSCRIBED" THEN "connected"
     ELSE IF status \in { "CHANNEL_ERROR", "TIMED_OUT" } THEN "reconnecting"
     ELSE IF status = "CLOSED" THEN "closed"
     ELSE prevStatus,
   room |-> prevRoom]

\* The change-feed channel of c fails and the callback runs with the status.
\* After an error or a timeout the realtime client joins the channel again;
\* a closed channel stays closed.  Snapshots not yet handed to the handler
\* may be lost with the connection.  A changed connectionStatus renders
\* LajuApp again.
ChannelFailed(c) ==
  /\ chan[c].state \in { "joining", "joined" }
  /\ events < MaxEvents
  /\ events' = events + 1
  /\ \E status \in FailureStatuses, keep \in { feed[c], << >> } :
       LET r == subscribeCallback(status, connectionStatus[c], room[c])
       IN /\ connectionStatus' =
               [connectionStatus EXCEPT ![c] = r.connectionStatus]
          /\ room' = [room EXCEPT ![c] = r.room]
          /\ storage' = [storage EXCEPT ![c] =
                           IF r.room = room[c] THEN @
                           ELSE setValue(room[c], r.room).item]
          /\ chan' = [chan EXCEPT ![c] =
                        IF r.room.id # room[c].id THEN roomChannel(@, r.room)
                        ELSE [@ EXCEPT !.state = IF status = "CLOSED"
                                                 THEN "closed" ELSE "joining"]]
          /\ feed' = [feed EXCEPT ![c] =
                        IF r.room.id # room[c].id THEN << >> ELSE keep]
          /\ IF r.connectionStatus # connectionStatus[c] \/ r.room # room[c]
             THEN LajuAppRender(c, r.room)
             ELSE UNCHANGED << bsub, incomingFile, wire >>
  /\ UNCHANGED << store, nextId, req, toast, outcome, joined, closedCodes,
                  now, lastActivity, roomActivity, history, upload, announced >>

NextFeed ==
  \E c \in Pair :
    \/ \E roomCode \in JoinInputs : joinRoom(c, roomCode)
    \/ joinRoomDone(c)
    \/ cancelRoom(c)
    \/ cancelRoomDone(c)
    \/ ChannelSubscribed(c)
    \/ ChannelFailed(c)
    \/ BroadcastSubscribed(c)
    \/ DeliverSnapshot(c)
    \/ Reload(c)

\* LajuApp from the moment a host waits in its room, with a change-feed
\* channel that may fail.
SpecFeed == InitHosted /\ [][NextFeed]_vars

\* ------------------ src/pages/index.js: between setRoom(null) and the effects
\* cancelRoom continues in a promise job after the delete; React renders the
\* state it set, and runs the cleanup of the effects, in a later task.  A
\* message of the realtime socket that is handled in between still finds
\* the postgres_changes handler subscribed.

\* cancelRoom from the delete's result to its return: setRoom(null) writes
\* the state and the sessionStorage item and the toast is shown; the render
\* is pending.
cancelRoomReturn(c) ==
  /\ req[c].op = "delete"
  /\ LET r == cancelRoomResult(req[c].result)
     IN /\ room' = [room EXCEPT ![c] = setValue(room[c], r.room).storedValue]
        /\ storage' = [storage EXCEPT ![c] = setValue(room[c], r.room).item]
        /\ toast' = [toast EXCEPT ![c] = r.toast]
        /\ outcome' = [outcome EXCEPT ![c] =
                         [op |-> "delete", why |-> req[c].why, typed |-> << >>,
                          sends |-> req[c].sends, tries |-> 0,
                          target |-> req[c].id]]
  /\ req' = [req EXCEPT ![c] = [op |-> "render"]]
  /\ UNCHANGED << store, nextId, chan, feed, connectionStatus, joined,
                  closedCodes, events, sessionVars >>

\* The cleanup of the realtime effect: supabase.removeChannel(channel) starts
\* leaving a channel that was subscribed; the realtime client reports the
\* end of the channel to the subscribe callback later.
removeChannel(prev) ==
  IF prev.state \in { "joining", "joined" }
  THEN [prev EXCEPT !.state = "leaving"]
  ELSE NoChan

\* The pending render and its effects: the realtime effect finds the room
\* id it subscribed for, or removes its channel and subscribes for the
\* room there is now (with no room it sets the status and returns);
\* ConnectedRoom is rendered or unmounted.
roomEffectsFlush(c) ==
  /\ req[c] = [op |-> "render"]
  /\ req' = [req EXCEPT ![c] = NoReq]
  /\ IF chan[c].room = room[c].id
     THEN UNCHANGED << chan, feed, connectionStatus, bsub, incomingFile, wire >>
     ELSE /\ chan' = [chan EXCEPT ![c] =
                        IF room[c].id = 0 THEN removeChannel(@)
                        ELSE roomChannel(@, room[c])]
          /\ feed' = [feed EXCEPT ![c] = << >>]
          /\ connectionStatus' =
               [connectionStatus EXCEPT ![c] =
                  IF room[c].id = 0 THEN "disconnected" ELSE @]
          /\ LajuAppRender(c, room[c])
  /\ UNCHANGED << store, nextId, room, storage, toast, outcome, joined,
                  closedCodes, events, now, lastActivity, roomActivity,
                  history, upload, announced >>

\* The subscribe callback of a channel that was removed runs with CLOSED
\* once the channel has left: it calls setConnectionStatus like the
\* callback of a channel in use.  A changed connectionStatus renders
\* LajuApp again.
removedChannelClosed(c) ==
  /\ chan[c].state = "leaving"
  /\ chan' = [chan EXCEPT ![c] = NoChan]
  /\ LET r == subscribeCallback("CLOSED", connectionStatus[c], room[c])
     IN /\ connectionStatus' =
             [connectionStatus EXCEPT ![c] = r.connectionStatus]
        /\ IF r.connectionStatus # connectionStatus[c]
           THEN LajuAppRender(c, room[c])
           ELSE UNCHANGED << bsub, incomingFile, wire >>
  /\ UNCHANGED << store, nextId, room, storage, req, feed, toast, outcome,
                  joined, closedCodes, events, now, lastActivity,
                  roomActivity, history, upload, announced >>

NextClose ==
  \E c \in Pair :
    \/ \E roomCode \in JoinInputs : joinRoom(c, roomCode)
    \/ joinRoomDone(c)
    \/ cancelRoom(c)
    \/ cancelRoomReturn(c)
    \/ roomEffectsFlush(c)
    \/ removedChannelClosed(c)
    \/ ChannelSubscribed(c)
    \/ DeliverSnapshot(c)
    \/ Reload(c)

\* LajuApp from the moment a host waits in its room, with the render after
\* cancelRoom as a step of its own.
SpecClose == InitHosted /\ [][NextClose]_vars

\* ------------- src/pages/index.js: ConnectedRoom with more than one send flow
\* handleUpload does not look at isUploading; the file input and its button
\* do, the drop handler of the page does not.  Here upload[c] holds the flag
\* and the calls of handleUpload that have not returned:
\* [stage |-> "flows", isUploading, flows], or NoUpload when the flag is
\* false and no call is pending.

\* The state isUploading of ConnectedRoom.
IsUploading(u) == u.stage = "flows" /\ u.isUploading

\* The pending calls of handleUpload, oldest first.
FlowsOf(u) == IF u.stage = "flows" THEN u.flows ELSE << >>

UploadState(flag, flows) ==
  IF ~flag /\ flows = << >> THEN NoUpload
  ELSE [stage |-> "flows", isUploading |-> flag, flows |-> flows]

RemoveAt(s, i) == SubSeq(s, 1, i - 1) \o SubSeq(s, i + 1, Len(s))

\* handleUpload([file]) up to its first await: setIsUploading(true), the
\* size check (whose throw runs the finally at once), the grant request.
startUpload(c, file) ==
  /\ Screen(room[c], c) = "ConnectedRoom"
  /\ events < MaxEvents
  /\ IF file.size > MaxFileSize
     THEN /\ toast' = [toast EXCEPT ![c] = [kind |-> "error", msg |-> MsgTooBig]]
          /\ events' = events + 1
          /\ upload' = [upload EXCEPT ![c] = UploadState(FALSE, FlowsOf(@))]
     ELSE \E signerUp \in ServiceUp :
            /\ events' = IF signerUp THEN events + 1 ELSE events + 2
            /\ toast' = [toast EXCEPT ![c] = [kind |-> "loading",
                                              msg |-> MsgPreparing]]
            /\ upload' = [upload EXCEPT ![c] =
                            UploadState(TRUE, Append(FlowsOf(@),
                              [stage |-> "grant", room |-> room[c].id,
                               file |-> file,
                               thumbnail |-> createThumbnail(file),
                               response |-> generateUploadUrl(file.name,
                                              file.type, now, signerUp)]))]
  /\ ConnectedRoomRender(c, wire[c])
  /\ UNCHANGED << store, nextId, room, storage, req, chan, feed,
                  connectionStatus, outcome, joined, closedCodes, now,
                  lastActivity, roomActivity, incomingFile, history, announced >>

\* onChange of the file input, which is disabled while isUploading.
pickFiles(c) ==
  /\ ~IsUploading(upload[c])
  /\ \E file \in Files : startUpload(c, file)

\* onDrop of the page: handleUpload with the dropped files, if there are
\* any.
handleDrop(c) ==
  /\ Files # {}
  /\ \E file \in Files : startUpload(c, file)

\* One of the pending calls of handleUpload goes on from its await: after
\* the grant to the PUT, after the PUT to channel.send, after channel.send
\* to its end; a failed grant or PUT ends it.  The finally of a call that
\* ends sets isUploading to false.
flowStep(c) ==
  /\ \E i \in DOMAIN FlowsOf(upload[c]) :
       LET flows == FlowsOf(upload[c])
           f == flows[i]
           flag == IsUploading(upload[c])
       IN IF f.stage = "grant"
          THEN /\ IF ~(f.response.status >= 200 /\ f.response.status < 300)
                  THEN /\ toast' = [toast EXCEPT ![c] =
                                      [kind |-> "error",
                                       msg |-> grantError(f.response.body)]]
                       /\ upload' = [upload EXCEPT ![c] =
                                       UploadState(FALSE, RemoveAt(flows, i))]
                       /\ UNCHANGED events
                  ELSE \E putOk \in IF events < MaxEvents THEN BOOLEAN
                                    ELSE { TRUE } :
                         /\ events' = IF putOk THEN events ELSE events + 1
                         /\ upload' = [upload EXCEPT ![c] =
                              UploadState(flag, [flows EXCEPT ![i] =
                                [stage |-> "put", room |-> f.room,
                                 file |-> f.file, thumbnail |-> f.thumbnail,
                                 grant |-> f.response.body,
                                 status |-> IF putOk THEN 200 ELSE PutRefused]])]
                         /\ UNCHANGED toast
               /\ ConnectedRoomRender(c, wire[c])
               /\ UNCHANGED << history, announced, roomActivity >>
          ELSE IF f.stage = "put"
          THEN /\ IF ~xhrResolves(f.status)
                  THEN /\ toast' = [toast EXCEPT ![c] =
                                      [kind |-> "error", msg |-> MsgPutFailed]]
                       /\ upload' = [upload EXCEPT ![c] =
                                       UploadState(FALSE, RemoveAt(flows, i))]
                       /\ ConnectedRoomRender(c, wire[c])
                       /\ UNCHANGED << announced, roomActivity >>
                  ELSE LET payload == uploadPayload(f.file, f.thumbnail, f.grant)
                           to == Subscribers(f.room, c)
                       IN /\ toast' = [toast EXCEPT ![c] =
                                         [kind |-> "loading", msg |-> MsgSending]]
                          /\ upload' = [upload EXCEPT ![c] =
                               UploadState(flag, [flows EXCEPT ![i] =
                                 [stage |-> "send", room |-> f.room,
                                  payload |-> payload]])]
                          /\ wire' = [k \in Clients |->
                                        IF k \in to THEN Append(wire[k], payload)
                                        ELSE wire[k]]
                          /\ announced' = Append(announced,
                                             [room |-> f.room, from |-> c,
                                              at |-> now, to |-> to,
                                              payload |-> payload,
                                              file |-> f.file, grant |-> f.grant])
                          /\ roomActivity' = [roomActivity EXCEPT ![f.room] = now]
                          /\ UNCHANGED bsub
               /\ UNCHANGED << events, history >>
          ELSE /\ history' = [history EXCEPT ![c] =
                                addToHistory(@, historyItem(f.payload, now,
                                                            "outgoing"))]
               /\ toast' = [toast EXCEPT ![c] = [kind |-> "success", msg |-> MsgSent]]
               /\ upload' = [upload EXCEPT ![c] =
                               UploadState(FALSE, RemoveAt(flows, i))]
               /\ ConnectedRoomRender(c, wire[c])
               /\ UNCHANGED << events, announced, roomActivity >>
  /\ UNCHANGED << store, nextId, room, storage, req, chan, feed,
                  connectionStatus, outcome, joined, closedCodes, now,
                  lastActivity, incomingFile >>

NextDrop ==
  \/ pickFiles("c1")
  \/ handleDrop("c1")
  \/ flowStep("c1")
  \/ \E c \in Pair : BroadcastSubscribed(c)
  \/ onBroadcast("c2")

\* ConnectedRoom of src/pages/index.js, the host picking and dropping files
\* while earlier sends are still running.
SpecDrop == InitPaired /\ [][NextDrop]_vars

\* ------------------------- src/unnamed/part_000: the earlier page HomePage
\* HomePage holds the same state in the same sessionStorage items and talks
\* to the same store; toast[c] is its React state `error`, and it has no
\* connectionStatus.

\* Codes typed into HomePage's input: at most 4 characters, upper-cased by
\* its onChange handler.
HomeJoinInputs ==
  { generateRoomCode(Draws[d]) : d \in 1..NumDraws } \cup { << "K", "7" >> }

\* setRoom(value), the effect that writes or removes the sessionStorage item,
\* the change-feed effect (dependency room?.id) and the broadcast effect of
\* HomePage's ConnectedRoom (dependency room.id), which starts with
\* incomingFile null when it comes on screen.
homeSetRoom(c, value, keep) ==
  /\ room' = [room EXCEPT ![c] = value]
  /\ storage' = [storage EXCEPT ![c] = value]
  /\ IF value.id = room[c].id
     THEN feed' = [feed EXCEPT ![c] = keep] /\ UNCHANGED chan
     ELSE /\ feed' = [feed EXCEPT ![c] = << >>]
          /\ chan' = [chan EXCEPT ![c] =
                        IF value.id = 0 THEN NoChan
                        ELSE [room |-> value.id, state |-> "joining"]]
  /\ IF /\ Screen(value, c) = "ConnectedRoom"
        /\ Screen(room[c], c) = "ConnectedRoom"
        /\ value.id = room[c].id
     THEN UNCHANGED << bsub, incomingFile, wire >>
     ELSE /\ bsub' = [bsub EXCEPT ![c] =
                        IF Screen(value, c) = "ConnectedRoom"
                        THEN [room |-> value.id, state |-> "joining"]
                        ELSE NoChan]
          /\ incomingFile' = [incomingFile EXCEPT ![c] = NoFile]
          /\ wire' = [wire EXCEPT ![c] = << >>]
  /\ UNCHANGED connectionStatus

\* HomePage.createRoom after the fetch.
homeCreateRoomResult(response) ==
  IF response.status >= 200 /\ response.status < 300
  THEN [ok |-> TRUE, room |-> response.body, error |-> NoToast]
  ELSE [ok |-> FALSE, room |-> NoRoom,
        error |-> [kind |-> "error", msg |-> MsgHomeCreate]]

\* HomePage.joinRoom after the rpc: error, no data and no rows share a branch.
homeJoinRoomResult(res) ==
  IF res.error # NoError \/ Len(res.data) = 0
  THEN [ok |-> FALSE, room |-> NoRoom,
        error |-> [kind |-> "error", msg |-> MsgHomeNotJoinable]]
  ELSE [ok |-> TRUE, room |-> res.data[1], error |-> NoToast]

\* HomePage.createRoom up to the await of the fetch.
homeCreateRoom(c) ==
  /\ Screen(room[c], c) = "Home"
  /\ req[c] = NoReq
  /\ events < MaxEvents
  /\ \E d \in 1..NumDraws, storeUp \in StoreUp :
       LET res == handler(store, nextId, c, Draws[d], storeUp)
           why == IF ~storeUp THEN "store"
                  ELSE IF CodeInUse(store, generateRoomCode(Draws[d]))
                  THEN "collision" ELSE "ok"
       IN /\ events' = IF storeUp THEN events + 1 ELSE events + 2
          /\ store' = res.store
          /\ nextId' = IF res.store # store THEN nextId + 1 ELSE nextId
          /\ req' = [req EXCEPT ![c] =
                       [op |-> "create",
                        response |-> [status |-> res.status, body |-> res.body],
                        sends |-> 1, tries |-> res.tries, why |-> why]]
  /\ toast' = [toast EXCEPT ![c] = NoToast]
  /\ outcome' = [outcome EXCEPT ![c] = NoOutcome]
  /\ UNCHANGED << room, storage, chan, feed, connectionStatus, joined,
                  closedCodes, sessionVars >>

\* HomePage.createRoom from the response on.
homeCreateRoomDone(c) ==
  /\ req[c].op = "create"
  /\ LET r == homeCreateRoomResult(req[c].response)
     IN /\ IF r.ok
           THEN homeSetRoom(c, r.room, feed[c])
           ELSE UNCHANGED << room, storage, chan, feed, connectionStatus,
                             bsub, incomingFile, wire >>
        /\ toast' = [toast EXCEPT ![c] = r.error]
        /\ outcome' = [outcome EXCEPT ![c] =
                         [op |-> "create", why |-> req[c].why, typed |-> << >>,
                          sends |-> req[c].sends, tries |-> req[c].tries,
                          target |-> r.room.id]]
  /\ req' = [req EXCEPT ![c] = NoReq]
  /\ UNCHANGED << store, nextId, joined, closedCodes, events, now, lastActivity,
                  roomActivity, history, upload, announced >>

\* HomePage.joinRoom up to the await of the rpc.
homeJoinRoom(c, joinCode) ==
  /\ Screen(room[c], c) = "Home"
  /\ req[c] = NoReq
  /\ events < MaxEvents
  /\ \E storeUp \in StoreUp :
       LET res == JoinRoomAtomic(store, toUpperCase(joinCode), c, storeUp)
           target == RoomWithCode(store, joinCode)
           why == IF ~storeUp THEN "store"
                  ELSE IF target = 0
                  THEN IF toUpperCase(joinCode) \in closedCodes
                       THEN "deleted" ELSE "unknown"
                  ELSE IF store[target].status = "waiting" THEN "matched"
                  ELSE "connected"
       IN /\ events' = IF storeUp THEN events + 1 ELSE events + 2
          /\ store' = res.store
          /\ feed' = [k \in Clients |->
                        IF /\ chan[k].state = "joined"
                           /\ res.store[chan[k].room] # store[chan[k].room]
                        THEN Append(feed[k],
                                    [old |-> store[chan[k].room],
                                     new |-> res.store[chan[k].room]])
                        ELSE feed[k]]
          /\ req' = [req EXCEPT ![c] =
                       [op |-> "join",
                        result |-> [data |-> res.data, error |-> res.error],
                        typed |-> joinCode, sends |-> 1,
                        why |-> why, target |-> target]]
  /\ toast' = [toast EXCEPT ![c] = NoToast]
  /\ outcome' = [outcome EXCEPT ![c] = NoOutcome]
  /\ UNCHANGED << nextId, room, storage, chan, connectionStatus, joined,
                  closedCodes, sessionVars >>

\* HomePage.joinRoom from the rpc's result on.
homeJoinRoomDone(c) ==
  /\ req[c].op = "join"
  /\ LET r == homeJoinRoomResult(req[c].result)
     IN /\ IF r.ok
           THEN homeSetRoom(c, r.room, feed[c])
           ELSE UNCHANGED << room, storage, chan, feed, connectionStatus,
                             bsub, incomingFile, wire >>
        /\ toast' = [toast EXCEPT ![c] = r.error]
        /\ outcome' = [outcome EXCEPT ![c] =
                         [op |-> "join", why |-> req[c].why,
                          typed |-> req[c].typed,
                          sends |-> req[c].sends, tries |-> 0,
                          target |-> req[c].target]]
        /\ joined' = IF r.ok THEN joined \cup { << c, req[c].target >> }
                     ELSE joined
  /\ req' = [req EXCEPT ![c] = NoReq]
  /\ UNCHANGED << store, nextId, closedCodes, events, now, lastActivity,
                  roomActivity, history, upload, announced >>

\* HomePage.cancelRoom up to the await of the delete (WaitingRoom's button;
\* HomePage gives ConnectedRoom no cancel).
homeCancelRoom(c) ==
  /\ Screen(room[c], c) = "WaitingRoom"
  /\ req[c] = NoReq
  /\ events < MaxEvents
  /\ \E storeUp \in StoreUp :
       LET res == DeleteRoom(store, room[c].id, storeUp)
       IN /\ events' = IF storeUp THEN events + 1 ELSE events + 2
          /\ store' = res.store
          /\ closedCodes' =
               IF res.store # store
               THEN closedCodes \cup { store[room[c].id].room_code }
               ELSE closedCodes
          /\ req' = [req EXCEPT ![c] =
                       [op |-> "delete", result |-> [error |-> res.error],
                        sends |-> 1, id |-> room[c].id,
                        why |-> IF storeUp THEN "ok" ELSE "store"]]
  /\ outcome' = [outcome EXCEPT ![c] = NoOutcome]
  /\ UNCHANGED << nextId, room, storage, chan, feed, connectionStatus, toast,
                  joined, sessionVars >>

\* HomePage.cancelRoom from the delete's result on: setRoom(null).
homeCancelRoomDone(c) ==
  /\ req[c].op = "delete"
  /\ homeSetRoom(c, NoRoom, feed[c])
  /\ outcome' = [outcome EXCEPT ![c] =
                   [op |-> "delete", why |-> req[c].why, typed |-> << >>,
                    sends |-> req[c].sends, tries |-> 0,
                    target |-> req[c].id]]
  /\ req' = [req EXCEPT ![c] = NoReq]
  /\ UNCHANGED << store, nextId, toast, joined, closedCodes, events, now, lastActivity,
                  roomActivity, history, upload, announced >>

\* HomePage's channel is subscribed (.subscribe() takes no callback).
homeChannelSubscribed(c) ==
  /\ chan[c].state = "joining"
  /\ chan' = [chan EXCEPT ![c].state = "joined"]
  /\ UNCHANGED << store, nextId, room, storage, req, feed, connectionStatus,
                  toast, outcome, joined, closedCodes, events, sessionVars >>

\* HomePage's postgres_changes handler: setRoom(payload.new).
homeDeliverSnapshot(c) ==
  /\ feed[c] # << >>
  /\ homeSetRoom(c, Head(feed[c]).new, Tail(feed[c]))
  /\ UNCHANGED << store, nextId, req, toast, outcome, joined, closedCodes,
                  events, now, lastActivity,
                  roomActivity, history, upload, announced >>

\* A reload of HomePage: room is read back from sessionStorage.
homeReload(c) ==
  /\ events < MaxEvents
  /\ events' = events + 1
  /\ room' = [room EXCEPT ![c] = initialRoom(storage[c])]
  /\ chan' = [chan EXCEPT ![c] =
                IF initialRoom(storage[c]).id = 0 THEN NoChan
                ELSE [room |-> initialRoom(storage[c]).id, state |-> "joining"]]
  /\ feed' = [feed EXCEPT ![c] = << >>]
  /\ req' = [req EXCEPT ![c] = NoReq]
  /\ toast' = [toast EXCEPT ![c] = NoToast]
  /\ outcome' = [outcome EXCEPT ![c] = NoOutcome]
  /\ bsub' = [bsub EXCEPT ![c] =
                IF Screen(initialRoom(storage[c]), c) = "ConnectedRoom"
                THEN [room |-> storage[c].id, state |-> "joining"]
                ELSE NoChan]
  /\ incomingFile' = [incomingFile EXCEPT ![c] = NoFile]
  /\ wire' = [wire EXCEPT ![c] = << >>]
  /\ upload' = [upload EXCEPT ![c] = NoUpload]
  /\ UNCHANGED << store, nextId, storage, connectionStatus, joined,
                  closedCodes, now, lastActivity, roomActivity, history,
                  announced >>

NextHome ==
  \E c \in Clients :
    \/ homeCreateRoom(c)
    \/ homeCreateRoomDone(c)
    \/ \E joinCode \in HomeJoinInputs : homeJoinRoom(c, joinCode)
    \/ homeJoinRoomDone(c)
    \/ homeCancelRoom(c)
    \/ homeCancelRoomDone(c)
    \/ homeChannelSubscribed(c)
    \/ homeDeliverSnapshot(c)
    \/ homeReload(c)

\* The page HomePage of src/unnamed/part_000 against the store.
SpecHome == Init /\ [][NextHome]_vars

\* ------------- src/unnamed/part_000: the transfers of HomePage's ConnectedRoom
\* This ConnectedRoom has no size limit, no history and no toast: its React
\* state uploadStatus is upload[c].status.  Its broadcast effect depends on
\* room.id alone, so the channel stays through a render.

MsgHomeUploading == "Mengunggah"
MsgHomeGrantFailed == "Gagal mendapatkan izin unggah."
MsgHomePutFailed == "Unggah file gagal."
MsgHomeSending == "Unggah berhasil! Mengirim link..."
MsgHomeSent == "terkirim!"

\* createThumbnail of this ConnectedRoom: null unless the file is an image.
homeCreateThumbnail(file) == IF file.image THEN "data:image/jpeg" ELSE ""

\* The payload this handleUpload publishes.
homeUploadPayload(file, thumbnail, grant) ==
  [fileName |-> file.name, url |-> grant.downloadUrl, thumbnail |-> thumbnail,
   type |-> file.type]

\* handleUpload(file) up to the await of the fetch: the status line, the
\* incoming file cleared, and the API route issues the grant.
homeHandleUpload(c, file) ==
  /\ Screen(room[c], c) = "ConnectedRoom"
  /\ upload[c].stage = "idle"
  /\ req[c] = NoReq
  /\ events < MaxEvents
  /\ \E signerUp \in ServiceUp :
       /\ events' = IF signerUp THEN events + 1 ELSE events + 2
       /\ upload' = [upload EXCEPT ![c] =
                       [stage |-> "grant", status |-> MsgHomeUploading,
                        room |-> room[c].id, file |-> file,
                        thumbnail |-> homeCreateThumbnail(file),
                        response |-> generateUploadUrl(file.name, file.type,
                                                       now, signerUp)]]
  /\ incomingFile' = [incomingFile EXCEPT ![c] = NoFile]
  /\ UNCHANGED << store, nextId, room, storage, req, chan, feed,
                  connectionStatus, toast, outcome, joined, closedCodes, now,
                  lastActivity, roomActivity, bsub, history, wire, announced >>

\* handleUpload from the grant's response to the await of the PUT.
homeHandleUploadGranted(c) ==
  /\ upload[c].stage = "grant"
  /\ LET response == upload[c].response
     IN IF ~(response.status >= 200 /\ response.status < 300)
        THEN /\ upload' = [upload EXCEPT ![c] =
                             [stage |-> "idle", status |-> MsgHomeGrantFailed]]
             /\ UNCHANGED events
        ELSE \E putOk \in IF events < MaxEvents THEN BOOLEAN ELSE { TRUE } :
               /\ events' = IF putOk THEN events ELSE events + 1
               /\ upload' = [upload EXCEPT ![c] =
                               [stage |-> "put", status |-> upload[c].status,
                                room |-> upload[c].room,
                                file |-> upload[c].file,
                                thumbnail |-> upload[c].thumbnail,
                                grant |-> response.body, putOk |-> putOk]]
  /\ UNCHANGED << store, nextId, room, storage, req, chan, feed,
                  connectionStatus, toast, outcome, joined, closedCodes, now,
                  lastActivity, roomActivity, bsub, incomingFile, history,
                  wire, announced >>

\* handleUpload from the PUT's response to the await of channel.send.
homeHandleUploadStored(c) ==
  /\ upload[c].stage = "put"
  /\ IF ~upload[c].putOk
     THEN /\ upload' = [upload EXCEPT ![c] =
                          [stage |-> "idle", status |-> MsgHomePutFailed]]
          /\ UNCHANGED << wire, announced, roomActivity >>
     ELSE LET payload == homeUploadPayload(upload[c].file, upload[c].thumbnail,
                                           upload[c].grant)
              to == Subscribers(upload[c].room, c)
          IN /\ upload' = [upload EXCEPT ![c] =
                             [stage |-> "send", status |-> MsgHomeSending,
                              room |-> upload[c].room, payload |-> payload]]
             /\ wire' = [k \in Clients |->
                           IF k \in to THEN Append(wire[k], payload)
                           ELSE wire[k]]
             /\ announced' = Append(announced,
                                    [room |-> upload[c].room, from |-> c,
                                     at |-> now, to |-> to,
                                     payload |-> payload,
                                     file |-> upload[c].file,
                                     grant |-> upload[c].grant])
             /\ roomActivity' =
                  [roomActivity EXCEPT ![upload[c].room] = now]
  /\ UNCHANGED << store, nextId, room, storage, req, chan, feed,
                  connectionStatus, toast, outcome, joined, closedCodes,
                  events, now, lastActivity, bsub, incomingFile, history >>

\* handleUpload after channel.send: the status line.
homeHandleUploadSent(c) ==
  /\ upload[c].stage = "send"
  /\ upload' = [upload EXCEPT ![c] = [stage |-> "idle", status |-> MsgHomeSent]]
  /\ UNCHANGED << store, nextId, room, storage, req, chan, feed,
                  connectionStatus, toast, outcome, joined, closedCodes,
                  events, now, lastActivity, roomActivity, bsub, incomingFile,
                  history, wire, announced >>

\* The broadcast channel of this ConnectedRoom is subscribed.
homeBroadcastSubscribed(c) ==
  /\ bsub[c].state = "joining"
  /\ bsub' = [bsub EXCEPT ![c].state = "joined"]
  /\ UNCHANGED << pairVars, now, lastActivity, roomActivity, incomingFile,
                  history, upload, wire, announced >>

\* The handler of the 'file-transfer' broadcast: setIncomingFile(payload.payload).
homeOnBroadcast(c) ==
  /\ wire[c] # << >>
  /\ incomingFile' = [incomingFile EXCEPT ![c] = Head(wire[c])]
  /\ wire' = [wire EXCEPT ![c] = Tail(wire[c])]
  /\ UNCHANGED << pairVars, now, lastActivity, roomActivity, bsub, history,
                  upload, announced >>

NextHomeSend ==
  \E c \in Clients :
    \/ homeCreateRoom(c)
    \/ homeCreateRoomDone(c)
    \/ \E joinCode \in HomeJoinInputs : homeJoinRoom(c, joinCode)
    \/ homeJoinRoomDone(c)
    \/ homeCancelRoom(c)
    \/ homeCancelRoomDone(c)
    \/ homeChannelSubscribed(c)
    \/ homeDeliverSnapshot(c)
    \/ homeReload(c)
    \/ \E file \in Files : homeHandleUpload(c, file)
    \/ homeHandleUploadGranted(c)
    \/ homeHandleUploadStored(c)
    \/ homeHandleUploadSent(c)
    \/ homeBroadcastSubscribed(c)
    \/ homeOnBroadcast(c)

\* HomePage with its ConnectedRoom sending files.
SpecHomeSend == Init /\ [][NextHomeSend]_vars

\* --------------------- src/unnamed/part_000: the demo page with a mocked store
\* The demo keeps the room in React state, saved to sessionStorage by an
\* effect on [room]; its store is a mock that keeps nothing, so the table and
\* the channels of the model stay empty.

\* The digits of Number.prototype.toString(36).
Base36Digits ==
  << "0", "1", "2", "3", "4", "5", "6", "7", "8", "9",
     "a", "b", "c", "d", "e", "f", "g", "h", "i", "j", "k", "l", "m", "n",
     "o", "p", "q", "r", "s", "t", "u", "v", "w", "x", "y", "z" >>

\* Math.random().toString(36).substring(2, 6).toUpperCase(), for a number
\* whose first four digits after the point are the draw.
demoRoomCode(draw) == toUpperCase([i \in 1..4 |-> Base36Digits[draw[i] + 1]])

\* createRoom of the demo and handleAction around it: after the simulated
\* call it installs a waiting room of its own making (id Date.now()).
demoCreateRoom(c) ==
  /\ Screen(room[c], c) = "Home"
  /\ req[c] = NoReq
  /\ events < MaxEvents
  /\ events' = events + 1
  /\ \E d \in 1..NumDraws :
       LET roomData == [id |-> nextId, room_code |-> demoRoomCode(Draws[d]),
                        host_id |-> c, status |-> "waiting"]
       IN /\ room' = [room EXCEPT ![c] = roomData]
          /\ storage' = [storage EXCEPT ![c] = roomData]
  /\ nextId' = nextId + 1
  /\ toast' = [toast EXCEPT ![c] =
                 [kind |-> "success", msg |-> "Ruang berhasil dibuat!"]]
  /\ UNCHANGED << store, req, chan, feed, connectionStatus, outcome, joined,
                  closedCodes, sessionVars >>

\* cancelRoom of the demo: the mocked delete resolves, then setRoom(null).
\* The button is on the screen that was rendered last, which shows the room
\* as it was saved.
demoCancelRoom(c) ==
  /\ Screen(storage[c], c) = "WaitingRoom"
  /\ events < MaxEvents
  /\ events' = events + 1
  /\ room' = [room EXCEPT ![c] = NoRoom]
  /\ storage' = [storage EXCEPT ![c] = NoRoom]
  /\ UNCHANGED << store, nextId, req, chan, feed, connectionStatus, toast,
                  outcome, joined, closedCodes, sessionVars >>

\* The timer of the demo's WaitingRoom, 8 seconds after the room was
\* rendered: it assigns 'connected' to room.status of the object held in
\* React state, without setRoom (no render, no write to sessionStorage), and
\* asks the browser to reload the page.
demoTimer(c) ==
  /\ Screen(room[c], c) = "WaitingRoom"
  /\ req[c] = NoReq
  /\ room' = [room EXCEPT ![c].status = "connected"]
  /\ req' = [req EXCEPT ![c] = [op |-> "reload"]]
  /\ UNCHANGED << store, nextId, storage, chan, feed, connectionStatus, toast,
                  outcome, joined, closedCodes, events, sessionVars >>

\* The reload asked for by the timer happens: the page starts again from
\* the sessionStorage item.
demoReloaded(c) ==
  /\ req[c] = [op |-> "reload"]
  /\ room' = [room EXCEPT ![c] = initialRoom(storage[c])]
  /\ req' = [req EXCEPT ![c] = NoReq]
  /\ toast' = [toast EXCEPT ![c] = NoToast]
  /\ UNCHANGED << store, nextId, storage, chan, feed, connectionStatus,
                  outcome, joined, closedCodes, events, sessionVars >>

NextDemo ==
  \E c \in Clients :
    \/ demoCreateRoom(c)
    \/ demoCancelRoom(c)
    \/ demoTimer(c)
    \/ demoReloaded(c)

\* The demo page: hosts that create and cancel rooms while the timer of
\* WaitingRoom runs.
SpecDemo == Init /\ [][NextDemo]_vars

\* ------------------------------------------------------------------- claims

\* The causes for which no row matches the conditional update.
NotJoinableCauses == { "unknown", "deleted", "connected" }

\* C1: of the joins by different clients against one waiting room exactly one
\* succeeds: no room has two clients whose join succeeded, now or later; a
\* join succeeds only on a room, and the room's guest_id is the id of the
\* client whose join succeeded; and a join
\* served when the room was already connected ends with the not-joinable
\* message and without a room.
C1_ExactlyOneJoinSucceeds ==
  /\ \A p \in joined, q \in joined : p[2] = q[2] => p[1] = q[1]
  /\ \A p \in joined :
       /\ p[2] \in RoomIds
       /\ store[p[2]].id # 0 =>
            store[p[2]].status = "connected" /\ store[p[2]].guest_id = p[1]
  /\ \A c \in Clients :
       outcome[c].op = "join" /\ outcome[c].why = "connected" =>
         /\ toast[c] = [kind |-> "error", msg |-> MsgNotJoinable]
         /\ << c, outcome[c].target >> \notin joined

\* Two clients joined the same room: one won, the other was served after the
\* room was connected and got the not-joinable message.
C1_Witness ==
  \E a \in Clients, b \in Clients :
    /\ a # b
    /\ outcome[b].op = "join" /\ outcome[b].why = "connected"
    /\ << a, outcome[b].target >> \in joined
    /\ store[outcome[b].target].guest_id = a
    /\ toast[b].msg = MsgNotJoinable

\* C2: a waiting room has no guest_id; a connected room has a guest_id that
\* differs from its host_id.
C2_RoomRowInvariant ==
  \A r \in RoomIds :
    /\ Status(store[r]) = "waiting" => store[r].guest_id = NoClient
    /\ Status(store[r]) = "connected" =>
         store[r].guest_id # NoClient /\ store[r].guest_id # store[r].host_id

\* C3: once connected, a room never shows waiting again: not in the store,
\* not in a participant's React state, not in its sessionStorage copy.
C3_StatusNeverRegresses ==
  [][ /\ \A r \in RoomIds :
           Status(store[r]) = "connected" /\ store'[r].id # 0 =>
             Status(store'[r]) = "connected"
      /\ \A c \in Clients :
           /\ Status(room[c]) = "connected" /\ room'[c].id = room[c].id =>
                Status(room'[c]) = "connected"
           /\ Status(storage[c]) = "connected" /\ storage'[c].id = storage[c].id =>
                Status(storage'[c]) = "connected" ]_vars

\* A host that saw its room connected through the change feed and then
\* reloaded the page: the room is connected and the channel is being joined
\* again.
C3_Witness ==
  \E c \in Clients :
    /\ Status(room[c]) = "connected"
    /\ HostOf(room[c]) = c
    /\ room[c].guest_id # c
    /\ chan[c].state = "joining"

\* C4: no two rows of the store carry the same room code.
C4_RoomCodesUnique ==
  \A r1 \in RoomIds, r2 \in RoomIds :
    store[r1].id # 0 /\ store[r2].id # 0 /\ r1 # r2 =>
      store[r1].room_code # store[r2].room_code

\* A create whose generated code was in use has been rejected while the room
\* holding the code is still open.
C4_Witness ==
  \E c \in Clients :
    /\ outcome[c].op = "create" /\ outcome[c].why = "collision"
    /\ \E r \in RoomIds : store[r].id # 0

\* c's createRoom sends its request, and the handler runs, in this step.
CreateServed(c) == req[c] = NoReq /\ req'[c].op = "create"

\* The continuation of c's createRoom runs in this step.
CreateHandled(c) ==
  req[c].op = "create" /\ req'[c] = NoReq /\ events' = events

\* C5: a create that succeeds inserts exactly one row, with status waiting,
\* the caller as host_id and no guest, and answers with that row; the
\* continuation caches exactly the returned row, in state and in
\* sessionStorage, and the page shows WaitingRoom.
C5_CreateInsertsWaitingRoom ==
  [][ \A c \in Clients :
        /\ CreateServed(c) /\ req'[c].response.status = 200 =>
             \E r \in RoomIds :
               /\ store[r] = NoRoom
               /\ store' = [store EXCEPT ![r] = req'[c].response.body]
               /\ store'[r] = [id |-> r, room_code |-> store'[r].room_code,
                               host_id |-> c, guest_id |-> NoClient,
                               status |-> "waiting"]
        /\ CreateServed(c) /\ req'[c].response.status # 200 => store' = store
        /\ CreateHandled(c) /\ req[c].response.status = 200 =>
             /\ room'[c] = req[c].response.body
             /\ storage'[c] = req[c].response.body
             /\ Screen(room'[c], c) = "WaitingRoom"
             /\ toast'[c].kind = "success" ]_vars

\* A host whose create succeeded, after the first room was created, holds
\* the returned row and waits.
C5_Witness ==
  \E c \in Clients :
    /\ room[c].id > 1
    /\ outcome[c].op = "create" /\ outcome[c].why = "ok"
    /\ toast[c].msg = MsgCreateOk
    /\ Screen(room[c], c) = "WaitingRoom"
    /\ store[room[c].id] = room[c]

\* C6: a create whose generated code is in use tries further codes: it fails
\* only after more than one code was generated for the request.
C6_CreateRetriesOnCollision ==
  \A c \in Clients :
    outcome[c].op = "create" /\ outcome[c].why = "collision" =>
      outcome[c].tries > 1

\* C7: a join with a four-character code is sent to the store whatever its
\* case; when the room carrying the code, compared without case, was waiting,
\* the join succeeds, the room is connected with the caller as guest_id and
\* the caller holds it; a join of the code served afterwards ends with the
\* not-joinable message.
C7_JoinIgnoresCase ==
  \A c \in Clients :
    /\ outcome[c].op = "join" /\ Len(outcome[c].typed) = CodeLen =>
         outcome[c].why # "invalid"
    /\ outcome[c].op = "join" /\ outcome[c].why = "matched" =>
         /\ toast[c] = [kind |-> "success", msg |-> MsgJoinOk]
         /\ << c, outcome[c].target >> \in joined
         /\ store[outcome[c].target].id # 0 =>
              /\ store[outcome[c].target].status = "connected"
              /\ store[outcome[c].target].guest_id = c
    /\ outcome[c].op = "join" /\ outcome[c].why = "connected" =>
         toast[c] = [kind |-> "error", msg |-> MsgNotJoinable]

\* A guest joined with the lower-case form of the code, and a third party
\* that joined the code afterwards was turned away.
C7_Witness ==
  \E c \in Clients, d \in Clients :
    /\ outcome[c].op = "join" /\ outcome[c].why = "matched"
    /\ outcome[c].typed # toUpperCase(outcome[c].typed)
    /\ store[outcome[c].target].id # 0
    /\ store[outcome[c].target].guest_id = c
    /\ d \notin { c, store[outcome[c].target].host_id }
    /\ outcome[d].op = "join" /\ outcome[d].why = "connected"
    /\ outcome[d].target = outcome[c].target
    /\ toast[d].msg = MsgNotJoinable

\* C8: a join on a code that never existed, on the code of a deleted room and
\* on the code of a connected room all end the same way: the same error
\* toast, no room, nothing cached.
C8_NotJoinableIndistinct ==
  \A c \in Clients :
    outcome[c].op = "join" /\ outcome[c].why \in NotJoinableCauses =>
      /\ toast[c] = [kind |-> "error", msg |-> MsgNotJoinable]
      /\ << c, outcome[c].target >> \notin joined
      /\ \A d \in Clients :
           outcome[d].op = "join" /\ outcome[d].why \in NotJoinableCauses =>
             toast[d] = toast[c]

\* A room was created and cancelled, and the join of its code afterwards was
\* turned away with the not-joinable toast.
C8_Witness ==
  \E c \in Clients :
    /\ outcome[c].op = "join" /\ outcome[c].why = "deleted"
    /\ toast[c] = [kind |-> "error", msg |-> MsgNotJoinable]
    /\ room[c] = NoRoom

\* C9: a join that failed in the store is shown as something else than the
\* not-joinable message.
C9_StoreFailureDistinct ==
  \A c \in Clients :
    outcome[c].op = "join" /\ outcome[c].why = "store" =>
      /\ toast[c].kind = "error"
      /\ toast[c].msg \notin { MsgNotJoinable, MsgHomeNotJoinable }

\* C10: a create, join or delete that failed in the store is surfaced only
\* after the client sent the request more than once, and it leaves the
\* participant's room as it was.
C10_StoreFailureRetried ==
  \A c \in Clients :
    outcome[c].why = "store" =>
      /\ outcome[c].sends > 1
      /\ outcome[c].op = "delete" => room[c].id = outcome[c].target

\* The causes for which a createRoom or a joinRoom fails.
FailureCauses ==
  { "store", "collision", "invalid", "unknown", "deleted", "connected" }

\* The step in which c's createRoom or joinRoom ends in a failure.
FailedStep(c) ==
  /\ outcome'[c] # outcome[c]
  /\ outcome'[c].op \in { "create", "join" }
  /\ outcome'[c].why \in FailureCauses

\* C11: the step that ends a failed createRoom or joinRoom leaves the
\* participant's room, its sessionStorage copy and its channel as they were,
\* the participant stays on the home screen, and the failure is shown as an
\* error toast.
C11_FailureLeavesRoomUnchanged ==
  [][ \A c \in Clients :
        FailedStep(c) =>
          /\ room'[c] = room[c]
          /\ storage'[c] = storage[c]
          /\ chan'[c] = chan[c]
          /\ Screen(room'[c], c) = "Home"
          /\ toast'[c].kind = "error" ]_vars

\* A create that failed in the store and a join that was turned away have
\* both ended, and neither participant holds a room or a channel.
C11_Witness ==
  \E c \in Clients, d \in Clients :
    /\ outcome[c].op = "create" /\ outcome[c].why \in { "store", "collision" }
    /\ outcome[d].op = "join" /\ outcome[d].why \in FailureCauses
    /\ room[c] = NoRoom /\ storage[c] = NoRoom /\ chan[c] = NoChan
    /\ room[d] = NoRoom /\ storage[d] = NoRoom /\ chan[d] = NoChan

\* C12: a delete the store answers for a room that has no row raises no
\* error and leaves the store as it was, and the cancel that issued it ends
\* like any other: no room, the closing toast.
C12_DeleteIdempotent ==
  [][ \A c \in Clients :
        /\ ( /\ cancelRoom(c)
             /\ store[room[c].id] = NoRoom
             /\ req'[c].why = "ok" ) =>
               /\ store' = store
               /\ req'[c].result.error = NoError
        /\ ( cancelRoomDone(c) /\ req[c].why = "ok" ) =>
               /\ room'[c] = NoRoom
               /\ toast'[c] = [kind |-> "success", msg |-> MsgClosed] ]_vars

\* Both peers of one room have cancelled it, the second after the row was
\* gone.
C12_Witness ==
  \E c \in Clients, d \in Clients :
    /\ c # d
    /\ outcome[c].op = "delete" /\ outcome[c].why = "ok"
    /\ outcome[d].op = "delete" /\ outcome[d].why = "ok"
    /\ outcome[c].target = outcome[d].target
    /\ store[outcome[c].target] = NoRoom
    /\ toast[c].msg = MsgClosed /\ toast[d].msg = MsgClosed

\* C13: once a cancel has completed, the row of its room is gone from the
\* store (so that its code is free for a later create).
C13_CancelFreesCode ==
  \A c \in Clients :
    outcome[c].op = "delete" => store[outcome[c].target] = NoRoom

\* A room was created, joined and cancelled, and a later create took its
\* code.
C13_Witness ==
  \E c \in Clients, g \in Clients, r \in RoomIds :
    /\ outcome[c].op = "delete" /\ outcome[c].why = "ok"
    /\ << g, outcome[c].target >> \in joined
    /\ store[outcome[c].target] = NoRoom
    /\ store[r].id # 0 /\ store[r].room_code \in closedCodes

Settled(c) ==
  /\ \A d \in Clients : req[d] = NoReq
  /\ chan[c] = [room |-> room[c].id, state |-> "joined"]
  /\ feed[c] = << >>

\* C14: after a join succeeded on a room, the guest holds the room as
\* connected, and so does the host that stayed in the room, with the guest's
\* id, once nothing is on its way to it any more.
C14_BothPeersSeeConnected ==
  /\ \A g \in Clients :
       outcome[g].op = "join" /\ outcome[g].why = "matched" =>
         /\ Status(room[g]) = "connected"
         /\ room[g].guest_id = g
  /\ \A p \in joined, h \in Clients :
       ( /\ p[2] \in RoomIds
         /\ room[h].id = p[2]
         /\ HostOf(room[h]) = h
         /\ h # p[1]
         /\ store[p[2]].id # 0
         /\ Settled(h) ) =>
           /\ Status(room[h]) = "connected"
           /\ room[h].guest_id = p[1]

\* The host was subscribed when the guest joined, and has handled the
\* snapshot: both peers hold the connected room.
C14_Witness ==
  \E p \in joined, h \in Clients :
    /\ h # p[1]
    /\ room[h].id = p[2] /\ HostOf(room[h]) = h
    /\ Settled(h)
    /\ Status(room[h]) = "connected" /\ room[h].guest_id = p[1]
    /\ Status(room[p[1]]) = "connected" /\ room[p[1]] = room[h]

\* C15: a participant that holds a room and is attached to the change feed,
\* with nothing on its way to it, holds the store's current record of the
\* room: no stale status, no room whose row is gone.
C15_AttachedAgreesWithStore ==
  \A c \in Clients :
    room[c].id # 0 /\ Settled(c) => room[c] = store[room[c].id]

\* A participant attached to the feed holds exactly the store's record of a
\* connected room.
C15_Witness ==
  \E c \in Clients :
    /\ Status(room[c]) = "connected"
    /\ Settled(c)
    /\ room[c] = store[room[c].id]

C18_IdleRoomSwept ==
  \A r \in RoomIds :
    store[r].id # 0 => now - roomActivity[r] < IdleMs + SweepMs

\* The sweep closed the host's untouched room (only the join was an event),
\* the host's page is back on the home screen, and a join with the room's
\* code afterwards matched no row.
C18_Witness ==
  /\ now >= IdleMs
  /\ events = 1
  /\ store[1] = NoRoom
  /\ room["c1"] = NoRoom
  /\ storage["c1"] = NoRoom
  /\ outcome["c1"].op = "delete"
  /\ outcome["c2"].op = "join"
  /\ outcome["c2"].why = "deleted"
  /\ outcome["c2"].typed = HostedRoom.room_code
  /\ toast["c2"].msg = MsgNotJoinable

\* C19: the idle sweep closes no room that saw a join or a transfer
\* announcement in the last 30 minutes: whenever a callback of
\* cleanupInterval starts cancelRoom for a room, the latest create, join or
\* announcement of that room lies at least 30 minutes back.
C19_ActiveRoomNotSwept ==
  [][ now' # now =>
        \A c \in Clients :
          (req'[c] # req[c] /\ req'[c].op = "delete") =>
            now' - roomActivity[req'[c].id] >= IdleMs ]_vars

\* A guest joined after 29 minutes; the callbacks of the next two minutes
\* found the room active and both pages still hold it.
C19_Witness ==
  /\ now = IdleMs + SweepMs
  /\ roomActivity[1] = IdleMs - SweepMs
  /\ store[1].id = 1
  /\ store[1].status = "connected"
  /\ room["c1"] = store[1]
  /\ room["c2"] = store[1]
  /\ lastActivity["c1"] = roomActivity[1]
  /\ lastActivity["c2"] = roomActivity[1]

\* C20: an announcement is put once on the way to every page subscribed at
\* the time of the publish, and the handler that takes it off installs an
\* incoming file with the file name, MIME type and size of the file the
\* sender sent and the download URL of the sender's grant.
C20_AnnouncementRoundTrip ==
  [][ /\ announced' # announced =>
           LET a == announced'[Len(announced')]
           IN \A c \in Clients :
                wire'[c] = IF c \in a.to THEN Append(wire[c], a.payload)
                           ELSE wire[c]
      /\ \A c \in Clients :
           incomingFile'[c] # incomingFile[c] /\ incomingFile'[c] # NoFile =>
             /\ wire[c] # << >>
             /\ Len(wire'[c]) < Len(wire[c])
             /\ \E i \in DOMAIN announced :
                  LET a == announced[i]
                  IN /\ c \in a.to
                     /\ incomingFile'[c].fileName = a.file.name
                     /\ incomingFile'[c].type = a.file.type
                     /\ "size" \in DOMAIN incomingFile'[c]
                     /\ incomingFile'[c].size = a.file.size
                     /\ incomingFile'[c].url = a.grant.downloadUrl ]_vars

\* A page subscribed at the time of the publish has handled the
\* announcement: its incoming file is the published payload.
C20_Witness ==
  \E c \in Clients :
    /\ announced # << >>
    /\ c \in announced[1].to
    /\ wire[c] = << >>
    /\ incomingFile[c] = announced[1].payload
    /\ incomingFile[c].url = announced[1].grant.downloadUrl
    /\ incomingFile[c].fileName = announced[1].file.name

\* C21: a message is put on the way to a page only by a publish, and only to
\* a page whose channel on the room's topic is subscribed at that moment;
\* nothing is kept for, or sent again to, a page that subscribes later.  The
\* publisher's send flow ends with the outgoing entry and the success toast
\* whoever was subscribed.
C21_NoReplayNoError ==
  [][ \A c \in Clients :
        /\ Len(wire'[c]) > Len(wire[c]) =>
             /\ Len(announced') = Len(announced) + 1
             /\ LET a == announced'[Len(announced')]
                IN /\ c # a.from
                   /\ bsub[c] = [room |-> a.room, state |-> "joined"]
                   /\ wire'[c] = Append(wire[c], a.payload)
        /\ handleUploadSent(c) =>
             /\ toast'[c] = [kind |-> "success", msg |-> MsgSent]
             /\ history'[c] # << >>
             /\ history'[c][1].direction = "outgoing" ]_vars

\* c1 published while c2's channel was not subscribed and its send flow ended
\* with the success toast; c2's channel is subscribed now and c2 has received
\* nothing.
C21_Witness ==
  /\ Len(announced) = 1
  /\ announced[1].from = "c1"
  /\ announced[1].to = {}
  /\ upload["c1"] = NoUpload
  /\ toast["c1"] = [kind |-> "success", msg |-> MsgSent]
  /\ bsub["c2"] = [room |-> announced[1].room, state |-> "joined"]
  /\ room["c2"].id = announced[1].room
  /\ wire["c2"] = << >>
  /\ incomingFile["c2"] = NoFile
  /\ history["c2"] = << >>

\* The other member of the pair a row binds.
PeerOf(row, c) ==
  { k \in { row.host_id, row.guest_id } : k # c /\ k # NoClient }

\* C22: whenever an announcement is published in a room that exists, the
\* other member of the pair shows the same room as connected and its channel
\* on the room's broadcast topic is subscribed.
C22_PublishFindsPeerConnected ==
  [][ Len(announced') = Len(announced) + 1 =>
        LET a == announced'[Len(announced')]
        IN store[a.room].id # 0 =>
             \A k \in PeerOf(store[a.room], a.from) :
               /\ room[k].id = a.room
               /\ room[k].status = "connected"
               /\ bsub[k] = [room |-> a.room, state |-> "joined"] ]_vars

\* The guest published while the host was connected and subscribed, and the
\* host has the message on its way.
C22_Witness ==
  /\ Len(announced) = 1
  /\ announced[1].from = "c2"
  /\ announced[1].to = { "c1" }
  /\ room["c1"] = store[1]
  /\ room["c1"].status = "connected"
  /\ wire["c1"] = << announced[1].payload >>

\* The payloads published to c, in the order of their publish.
Addressed(c) ==
  LET to == SelectSeq(announced, LAMBDA a : c \in a.to)
  IN [i \in 1..Len(to) |-> to[i].payload]

IsSuffix(s, t) ==
  /\ Len(s) <= Len(t)
  /\ s = SubSeq(t, Len(t) - Len(s) + 1, Len(t))

\* C23: the page holds one incoming file, not a queue; the handler installs
\* the announcement it runs on in place of an incoming file that was not yet
\* dismissed; and the announcements waiting for the handler are the latest
\* ones published to the page, in publish order, so that what the handler
\* installs is newer than anything it installed before.
C23_NewestReplacesPending ==
  [][ \A c \in Clients :
        /\ IsSuffix(wire[c], Addressed(c))
        /\ onBroadcast(c) /\ incomingFile[c] # NoFile =>
             /\ incomingFile'[c] = Head(wire[c])
             /\ incomingFile'[c] \in { a.payload : a \in
                                        { announced[i] : i \in DOMAIN announced } } ]_vars

\* The guest handled report.pdf, did not dismiss it, and then handled
\* photo.png: its incoming file is the second announcement, its history
\* holds both.
C23_Witness ==
  /\ Len(announced) = 2
  /\ announced[1].to = { "c2" }
  /\ announced[2].to = { "c2" }
  /\ announced[1].payload # announced[2].payload
  /\ wire["c2"] = << >>
  /\ Len(history["c2"]) = 2
  /\ incomingFile["c2"] = announced[2].payload

\* C24: a send flow passes its steps in the order grant, byte transfer,
\* publish.  The PUT is started only with an issued grant; an announcement
\* is published only by a flow whose PUT ended with a success status, and
\* carries the download URL of that flow's grant; a message on its way to a
\* page is the payload of a published announcement.
C24_PublishAfterGrantAndPut ==
  [][ /\ \A c \in Clients :
           /\ upload'[c].stage = "put" /\ upload[c].stage # "put" =>
                /\ upload[c].stage = "grant"
                /\ upload[c].response.status = 200
                /\ upload'[c].grant = upload[c].response.body
           /\ upload'[c].stage = "send" /\ upload[c].stage # "send" =>
                /\ upload[c].stage = "put"
                /\ upload[c].status = 200
                /\ Len(announced') = Len(announced) + 1
           /\ \A i \in DOMAIN wire'[c] :
                \E j \in DOMAIN announced' : wire'[c][i] = announced'[j].payload
      /\ Len(announced') # Len(announced) =>
           /\ Len(announced') = Len(announced) + 1
           /\ LET a == announced'[Len(announced')]
              IN /\ upload[a.from].stage = "put"
                 /\ upload[a.from].status = 200
                 /\ a.payload.url = upload[a.from].grant.downloadUrl
                 /\ a.payload.url.base = "public" ]_vars

\* A flow of c1 got its grant, its PUT succeeded and it published: the
\* guest has the message, with the download URL of the grant, on its way.
C24_Witness ==
  /\ Len(announced) = 1
  /\ announced[1].from = "c1"
  /\ upload["c1"].stage = "send"
  /\ wire["c2"] = << announced[1].payload >>
  /\ announced[1].payload.url = announced[1].grant.downloadUrl
  /\ announced[1].grant.uploadUrl.expires = now + GrantMs

\* What a failed step of a send flow leaves alone: the announcements, the
\* messages on their way, the history, the rooms of the pages, the stored
\* rooms, the table and the change-feed channels.
SendAborted(c) ==
  /\ upload'[c] = NoUpload
  /\ toast'[c].kind = "error"
  /\ announced' = announced
  /\ \A k \in Clients : Len(wire'[k]) <= Len(wire[k])
  /\ history' = history
  /\ room' = room
  /\ storage' = storage
  /\ store' = store
  /\ chan' = chan
  /\ connectionStatus' = connectionStatus

\* C25: a send flow whose grant request fails, or whose PUT fails, ends
\* there: it shows an error that tells the two failures apart, publishes
\* nothing, adds nothing to the history and leaves the pairing alone; the
\* page can send again.
C25_FailedSendAbortsAlone ==
  [][ \A c \in Clients :
        /\ handleUploadGranted(c) /\ upload[c].response.status # 200 =>
             /\ SendAborted(c)
             /\ toast'[c].msg \in { MsgGrant500, MsgGrantFallback }
             /\ toast'[c].msg # MsgPutFailed
        /\ handleUploadStored(c) /\ upload[c].status # 200 =>
             /\ SendAborted(c)
             /\ toast'[c].msg = MsgPutFailed
             /\ toast'[c].msg \notin { MsgGrant500, MsgGrantFallback } ]_vars

\* c1's PUT was refused after a grant: the page shows the transfer error,
\* nothing was published or recorded, and both pages still hold the
\* connected room.
C25_Witness ==
  /\ toast["c1"] = [kind |-> "error", msg |-> MsgPutFailed]
  /\ upload["c1"] = NoUpload
  /\ announced = << >>
  /\ wire["c2"] = << >>
  /\ history["c1"] = << >>
  /\ room["c1"] = PairedRoom
  /\ room["c2"] = PairedRoom
  /\ store[1] = PairedRoom
  /\ bsub["c2"] = [room |-> 1, state |-> "joined"]

\* C26: a file larger than the maximum size never gets past the size check:
\* no send flow holds it after the grant request or the PUT, and no
\* announcement carries it.
C26_OversizeStopsAtCheck ==
  /\ \A c \in Clients :
       "file" \in DOMAIN upload[c] => upload[c].file.size <= MaxFileSize
  /\ \A i \in DOMAIN announced : announced[i].file.size <= MaxFileSize

\* A page holds a granted upload URL for a file above the maximum size and
\* has started the PUT.
C26_Witness ==
  \E c \in Clients :
    /\ upload[c].stage = "put"
    /\ upload[c].file.size > MaxFileSize
    /\ upload[c].grant.downloadUrl.base = "public"

C28_RowChangesByJoinOrDelete ==
  [][ \A r \in RoomIds :
        store[r].id # 0 /\ store'[r] # store[r] =>
          \/ /\ store'[r] = NoRoom
             /\ \E c \in Clients : req'[c].op = "delete" /\ req'[c].id = r
          \/ /\ store[r].status = "waiting"
             /\ store[r].guest_id = "none"
             /\ \E c \in Clients :
                  /\ req'[c].op = "join"
                  /\ store'[r] = [store[r] EXCEPT !.guest_id = c,
                                                  !.status = "connected"] ]_vars

\* c2 joined room 1, and c3 typed the same code afterwards: the row still
\* names c2 as its guest and c1 as its host.
C28_Witness ==
  /\ store[1].id = 1
  /\ store[1].host_id = "c1"
  /\ store[1].guest_id = "c2"
  /\ store[1].status = "connected"
  /\ outcome["c3"].op = "join"
  /\ outcome["c3"].typed = store[1].room_code
  /\ outcome["c3"].sends = 1
  /\ room["c3"] = NoRoom

\* C29: when the change-feed channel of a page fails, the callback changes
\* the connection status of that page to reconnecting or closed and nothing
\* else of the session: the room, its stored copy, the screen, the rooms of
\* the channels, the pending request, the transfers and the table stay.
C29_FailureChangesStatusOnly ==
  [][ \A c \in Clients :
        ChannelFailed(c) =>
          /\ connectionStatus'[c] \in { "reconnecting", "closed" }
          /\ \A k \in Clients \ { c } :
               connectionStatus'[k] = connectionStatus[k]
          /\ room' = room
          /\ storage' = storage
          /\ store' = store
          /\ Screen(room'[c], c) = Screen(room[c], c)
          /\ chan'[c].room = chan[c].room
          /\ bsub'[c].room = bsub[c].room
          /\ req' = req
          /\ toast' = toast
          /\ incomingFile' = incomingFile
          /\ history' = history
          /\ upload' = upload
          /\ lastActivity' = lastActivity ]_vars

\* The host's channel was closed before the guest joined: the host still
\* holds its waiting room, stored and on screen, with status closed, and the
\* row is in the table.
C29_Witness ==
  /\ connectionStatus["c1"] = "closed"
  /\ chan["c1"] = [room |-> 1, state |-> "closed"]
  /\ room["c1"] = HostedRoom
  /\ storage["c1"] = HostedRoom
  /\ store[1].id = 1
  /\ store[1].status = "connected"
  /\ room["c2"].id = 1

\* The upper-case letters and the digits without the letter O and the
\* digit 0.
CodeAlphabet ==
  ({ UpperLetters[i] : i \in DOMAIN UpperLetters }
     \cup { "0", "1", "2", "3", "4", "5", "6", "7", "8", "9" }) \ { "O", "0" }

IsRoomCode(code) ==
  /\ DOMAIN code = 1..4
  /\ \A i \in DOMAIN code : code[i] \in CodeAlphabet

\* The draw whose i-th call of Math.random gives the index d, the others 0.
OneDraw(i, d) == [j \in 1..CodeLen |-> IF j = i THEN d ELSE 0]

\* C30: a code made by generateRoomCode has four characters, each an
\* upper-case letter or a digit other than O and 0, whatever index each call
\* of Math.random gives (a fact about the function alone, evaluated in the
\* states before the first event); so has the code of every row createRoom
\* inserted and of every room a page holds.
C30_CodesFourFromAlphabet ==
  /\ events = 0 =>
       /\ \A i \in 1..CodeLen, d \in 0..(Len(chars) - 1) :
            IsRoomCode(generateRoomCode(OneDraw(i, d)))
       /\ \A d \in 1..NumDraws : IsRoomCode(generateRoomCode(Draws[d]))
  /\ \A r \in RoomIds : store[r].id # 0 => IsRoomCode(store[r].room_code)
  /\ \A c \in Clients : room[c].id # 0 => IsRoomCode(room[c].room_code)

\* c1 and c2 each created a room; the two rows carry the two codes the
\* draws give, and each host holds its own.
C30_Witness ==
  /\ store[1].id = 1
  /\ store[2].id = 2
  /\ store[1].room_code # store[2].room_code
  /\ { store[1].room_code, store[2].room_code }
       = { generateRoomCode(Draws[d]) : d \in 1..NumDraws }
  /\ room["c1"].id # 0
  /\ room["c1"].room_code = store[room["c1"].id].room_code
  /\ room["c1"].host_id = "c1"

\* C31: the sessionStorage item always equals the room of the page, so a
\* reload gives the page the room it had (or none, after a cancel), with
\* the same id and code, without a request to the API or the store.
C31_StoredCopyEqualsRoom ==
  [][ \A c \in Clients :
        /\ storage[c] = room[c]
        /\ storage'[c] = room'[c]
        /\ Reload(c) =>
             /\ room'[c] = room[c]
             /\ storage'[c] = storage[c]
             /\ req'[c] = NoReq
             /\ store' = store
             /\ nextId' = nextId ]_vars

\* c2 joined room 1 and reloaded the page: it holds the connected room
\* again, on a channel not yet subscribed, with no operation behind it.
C31_Witness ==
  /\ store[1].id = 1
  /\ room["c2"].id = 1
  /\ room["c2"].guest_id = "c2"
  /\ room["c2"].room_code = store[1].room_code
  /\ storage["c2"] = room["c2"]
  /\ outcome["c2"] = NoOutcome
  /\ toast["c2"] = NoToast
  /\ chan["c2"] = [room |-> 1, state |-> "joining"]
  /\ joined = { << "c2", 1 >> }

\* C32: the room of a host goes from waiting to connected only in the step
\* in which the postgres_changes handler installs a snapshot of that room
\* with status connected.
C32_HostConnectsBySnapshotOnly ==
  [][ \A c \in Clients :
        ( /\ room[c].id # 0
          /\ HostOf(room[c]) = c
          /\ Status(room[c]) = "waiting"
          /\ room'[c].id # 0
          /\ Status(room'[c]) = "connected" ) =>
             /\ feed[c] # << >>
             /\ DeliverSnapshot(c)
             /\ Status(onPostgresChanges(Head(feed[c]))) = "connected"
             /\ room'[c] = onPostgresChanges(Head(feed[c])) ]_vars

\* A host's room object says connected while the stored item, and the
\* table, know of no guest: the timer wrote it.
C32_Witness ==
  \E c \in Clients :
    /\ room[c].id # 0
    /\ room[c].host_id = c
    /\ room[c].status = "connected"
    /\ storage[c].id = room[c].id
    /\ storage[c].status = "waiting"
    /\ feed[c] = << >>
    /\ req[c] = [op |-> "reload"]

\* C33: the connection status follows the channel: a subscription makes it
\* connected, also after a failure; a failure after which the client joins
\* again makes it reconnecting; a failure after which the client has given
\* the channel up makes it error.
C33_StatusFollowsSubscription ==
  [][ \A c \in Clients :
        /\ ChannelSubscribed(c) => connectionStatus'[c] = "connected"
        /\ ChannelFailed(c) =>
             /\ chan'[c].state = "joining" =>
                  connectionStatus'[c] = "reconnecting"
             /\ chan'[c].state = "closed" =>
                  connectionStatus'[c] = "error" ]_vars

\* The channel of the host failed for good: the client does not join it
\* again, the host still holds the room, and the status is not error.
C33_Witness ==
  /\ chan["c1"] = [room |-> 1, state |-> "closed"]
  /\ room["c1"].id = 1
  /\ connectionStatus["c1"] = "closed"
  /\ connectionStatus["c1"] # "error"

\* C34: a page without a room gets one only by the continuation of its own
\* createRoom or joinRoom; in particular a snapshot never installs a room
\* on a page that has none.
C34_EmptyUntilCreateOrJoin ==
  [][ \A c \in Clients :
        room[c] = NoRoom /\ room'[c] # NoRoom =>
          /\ req[c].op \in { "create", "join" }
          /\ createRoomDone(c) \/ joinRoomDone(c) ]_vars

\* The host cancelled its room while the snapshot of a join was on its way;
\* the snapshot was handled after cancelRoom returned, and the host holds
\* the deleted room, connected, again.
C34_Witness ==
  /\ outcome["c1"].op = "delete"
  /\ outcome["c1"].target = 1
  /\ store[1].id = 0
  /\ room["c1"].id = 1
  /\ room["c1"].status = "connected"
  /\ storage["c1"] = room["c1"]

\* C35: while a page stays in the connected room, a subscribed broadcast
\* channel stays subscribed through every step of ConnectedRoom, and every
\* announcement published in the room is put on its way to the peer.
C35_BroadcastStaysSubscribed ==
  [][ \A c \in Pair :
        /\ ( /\ Status(room[c]) = "connected"
             /\ room'[c] = room[c]
             /\ bsub[c] = [room |-> room[c].id, state |-> "joined"] ) =>
               bsub'[c] = bsub[c]
        /\ ( /\ Len(announced') = Len(announced) + 1
             /\ announced'[Len(announced')].from # c
             /\ Status(room[c]) = "connected"
             /\ room[c].id = announced'[Len(announced')].room ) =>
               wire'[c] = Append(wire[c], announced'[Len(announced')].payload) ]_vars

\* The host announced two files; the guest was shown the first, and while
\* its channel was being subscribed again after that render the second was
\* published: it is neither on its way to the guest nor in its history.
C35_Witness ==
  /\ Len(announced) = 2
  /\ announced[2].from = "c1"
  /\ announced[2].to = {}
  /\ room["c2"] = PairedRoom
  /\ bsub["c2"] = [room |-> 1, state |-> "joining"]
  /\ Len(history["c2"]) = 1
  /\ incomingFile["c2"] = announced[1].payload
  /\ wire["c2"] = << >>

\* C36: a page has at most one send flow in flight, and while it has one
\* its uploading flag is true.
C36_FlagCoversSendInFlight ==
  \A c \in Clients :
    /\ Len(FlowsOf(upload[c])) <= 1
    /\ FlowsOf(upload[c]) # << >> => IsUploading(upload[c])

\* The host dropped a second file during a send; one of the two sends has
\* ended and reset the flag, the other is still at its PUT.
C36_Witness ==
  /\ ~IsUploading(upload["c1"])
  /\ Len(FlowsOf(upload["c1"])) = 1
  /\ FlowsOf(upload["c1"])[1].stage = "put"
  /\ toast["c1"].kind \in { "success", "error" }

\* C37: a page that holds a room is the host or the guest named in it, and
\* the sessionStorage item from which a reload takes the room names it too.
C37_HolderIsMember ==
  \A c \in Clients :
    /\ room[c].id # 0 => c \in { room[c].host_id, room[c].guest_id }
    /\ storage[c].id # 0 => c \in { storage[c].host_id, storage[c].guest_id }

\* Host and guest hold the same connected room, the host by the snapshot of
\* the join, and the third client, whose join found no waiting room, holds
\* none.
C37_Witness ==
  /\ room["c1"].id = 1
  /\ room["c1"] = room["c2"]
  /\ room["c1"].host_id = "c1"
  /\ room["c1"].guest_id = "c2"
  /\ room["c1"].status = "connected"
  /\ outcome["c3"].op = "join"
  /\ outcome["c3"].sends = 1
  /\ room["c3"] = NoRoom

====
